---- MODULE Spec2Model ----
(***************************************************************************)
(* Concert Buddy: a model of the SeatingChart component (pan, zoom, click  *)
(* hit-test), of App (location updates, realtime subscription, room        *)
(* locations) and of RoomManager (create, join, leave), with the external  *)
(* store and realtime channel they call.                                   *)
(*                                                                         *)
(* Numbers that JavaScript keeps as floats (zoom, logical coordinates) are *)
(* exact rationals [n, d] here, d > 0, in lowest terms.                    *)
(***************************************************************************)
EXTENDS Integers, Sequences, FiniteSets, TLC

(***************************************************************************)
(* Optional values: <<>> is absent (null / undefined), <<v>> is present.   *)
(***************************************************************************)
None == <<>>
Some(v) == <<v>>

(***************************************************************************)
(* Exact rational arithmetic.                                              *)
(***************************************************************************)
Abs(i) == IF i < 0 THEN -i ELSE i

RECURSIVE GCD(_, _)
GCD(a, b) == IF b = 0 THEN a ELSE GCD(b, a % b)

Rat(num, den) ==
  LET g == GCD(Abs(num), Abs(den))
      s == IF den < 0 THEN -1 ELSE 1
  IN  [n |-> s * (num \div g), d |-> s * (den \div g)]

RInt(i) == [n |-> i, d |-> 1]

RAdd(p, q) ==
  LET g == GCD(p.d, q.d)
      l == (p.d \div g) * q.d
  IN  Rat(p.n * (l \div p.d) + q.n * (l \div q.d), l)

RNeg(p) == [n |-> -p.n, d |-> p.d]

RSub(p, q) == RAdd(p, RNeg(q))

RMul(p, q) ==
  LET g1 == GCD(Abs(p.n), q.d)
      g2 == GCD(Abs(q.n), p.d)
  IN  Rat((p.n \div g1) * (q.n \div g2), (p.d \div g2) * (q.d \div g1))

RDiv(p, q) == RMul(p, Rat(q.d, q.n))

RLe(p, q) == p.n * q.d <= q.n * p.d

RLt(p, q) == p.n * q.d < q.n * p.d

RMin(p, q) == IF RLe(p, q) THEN p ELSE q

RMax(p, q) == IF RLe(p, q) THEN q ELSE p

(***************************************************************************)
(* Bounds of the model and constants of the program.                       *)
(***************************************************************************)
\* Largest pan offset, in either axis, that a drag is followed to.
MaxPan == 100

\* viewBox="0 0 500 500": the logical canvas; the chart's layout box is taken
\* to be that size too, so that one logical unit is one pixel.
ChartSize == 500

\* Math.min(prev * 1.2, 3)
ZoomMax == 3

\* Math.max(prev / 1.2, 0.5)
ZoomMin == [n |-> 1, d |-> 2]

\* the factor 1.2 of handleZoomIn and handleZoomOut
ZoomStep == [n |-> 6, d |-> 5]

\* Pointer positions (clientX, clientY), relative to the chart's layout box.
Points ==
  { [x |-> 50, y |-> 50], [x |-> 100, y |-> 100],
    [x |-> 150, y |-> 150], [x |-> 150, y |-> 50] }

\* e.button: 0 is the primary button.
Buttons == {0, 2}

(***************************************************************************)
(* Venue layouts: seating_chart_data, parsed.  A path is its characters.   *)
(***************************************************************************)
PathSquare == \* "M0 0 L100 0 L100 100 L0 100 Z"
  << "M", "0", " ", "0", " ", "L", "1", "0", "0", " ", "0", " ", "L", "1", "0", "0", " ", "1", "0", "0", " ", "L", "0", " ", "1", "0", "0", " ", "Z" >>

PathOuter == \* "M0 0 L200 0 L200 200 L0 200 Z"
  << "M", "0", " ", "0", " ", "L", "2", "0", "0", " ", "0", " ", "L", "2", "0", "0", " ", "2", "0", "0", " ", "L", "0", " ", "2", "0", "0", " ", "Z" >>

PathOpen == \* "M0 0 L100 0 L100 100 L0 100": no closing Z
  << "M", "0", " ", "0", " ", "L", "1", "0", "0", " ", "0", " ", "L", "1", "0", "0", " ", "1", "0", "0", " ", "L", "0", " ", "1", "0", "0" >>

PathTriangle == \* "M0 0 L100 0 L50 100 Z": six numbers
  << "M", "0", " ", "0", " ", "L", "1", "0", "0", " ", "0", " ", "L", "5", "0", " ", "1", "0", "0", " ", "Z" >>

PathPenta == \* "M0 0 L100 0 L100 100 L0 100 L200 200 Z": ten numbers
  << "M", "0", " ", "0", " ", "L", "1", "0", "0", " ", "0", " ", "L", "1", "0", "0", " ", "1", "0", "0", " ", "L", "0", " ", "1", "0", "0", " ", "L", "2", "0", "0", " ", "2", "0", "0", " ", "Z" >>

Section(name, path) == [name |-> name, path |-> path]

\* JSON.parse(venue.seating_chart_data).sections for the venues of the store,
\* by venue id; None where JSON.parse throws (the data of "broken" is not
\* JSON).
JsonParse(v) ==
  CASE v = "arena"    -> Some(<< Section("Floor", PathSquare) >>)
    [] v = "hall"     -> Some(<< Section("Floor", PathSquare), Section("Bowl", PathOuter) >>)
    [] v = "stadium"  -> Some(<< Section("Bowl", PathOuter), Section("Floor", PathSquare) >>)
    [] v = "club"     -> Some(<< Section("Pit", PathOpen), Section("Bowl", PathOuter) >>)
    [] v = "tent"     -> Some(<< Section("Wedge", PathTriangle) >>)
    [] v = "field"    -> Some(<< Section("Lawn", PathPenta) >>)
    [] OTHER          -> None

\* The catch block that falls back to a chart of one section over the canvas.
VenueSectionsDefault(v) ==
  IF JsonParse(v) = None THEN << Section("Floor", PathOuter) >> ELSE JsonParse(v)[1]

\* venueData.sections: try { JSON.parse } catch { { sections: [] } }
VenueSections(v) ==
  IF JsonParse(v) = None THEN << >> ELSE JsonParse(v)[1]

AllVenues == {"arena", "hall", "stadium", "club", "tent", "field", "broken"}

(***************************************************************************)
(* Identifiers are character sequences, so that `${user.id}-${room.id}`    *)
(* is a real concatenation.                                                *)
(***************************************************************************)
\* The signed-in user of this client, and a user of another client.
Me == << "a" >>

Friend == << "a", "-", "B" >>

\* What Math.random().toString(36).substring(2, 8).toUpperCase() can give:
\* characters 0-9 and A-Z only.
RoomCodes == { << "B" >>, << "C" >> }

VARIABLES
  \* SeatingChart
  zoom, pan, isDragging, dragStart,
  \* the pointer over the chart: [phase, pos, moved]
  gesture,
  \* the onLocationSelect call made by the step just taken, if any
  selected,
  \* the handler that finished in the step just taken: [op, ok, toast]
  lastEvent,
  \* App
  user, selectedVenue, currentRoom, userLocations, myLocation,
  \* active realtime subscriptions of App, one entry per handler
  subs,
  \* VenueSelector: the venues loaded from the store
  venues,
  \* async handlers of this client that are suspended at an await
  tasks,
  \* realtime messages on their way to this client
  inbox,
  \* rooms this client has left through leaveRoom and not joined again
  left,
  \* the external store: user_locations and rooms
  dbLocations, dbRooms,
  \* RoomManager: the join dialog (the loading flag only disables buttons
  \* whose handlers the Enter key reaches as well, and is left out)
  roomCode, showJoinDialog,
  \* the text the user has typed or pasted into the room code input
  entered,
  \* MerchBoothTracker: whether it is mounted, and its venueId prop
  mounted, venueId,
  \* MerchBoothTracker: its state
  boothStatuses, loading, selectedBooth, reportLineLength, reportWaitTime,
  isReporting,
  \* active polling intervals, one entry per interval: the venueId it refreshes
  timers,
  \* loadBoothStatuses and submitReport calls suspended at an await
  jobs,
  \* the external store: line_reports, newest first
  dbReports

chartVars == << zoom, pan, isDragging, dragStart, gesture >>

appVars == << user, selectedVenue, currentRoom, userLocations, myLocation,
              subs, venues, tasks, inbox, left >>

storeVars == << dbLocations, dbRooms >>

trackerVars == << mounted, venueId, boothStatuses, loading, selectedBooth,
                  reportLineLength, reportWaitTime, isReporting, timers, jobs,
                  dbReports >>

dialogVars == << roomCode, showJoinDialog, entered >>

vars == << chartVars, selected, lastEvent, appVars, storeVars, dialogVars,
           trackerVars >>

\* useState initial values of the join dialog of RoomManager
DialogInit ==
  /\ roomCode = << >>
  /\ showJoinDialog = FALSE
  /\ entered = << >>

\* MerchBoothTracker not rendered, the line_reports table empty.
TrackerUnmounted ==
  /\ mounted = FALSE
  /\ venueId = ""
  /\ boothStatuses = << >>
  /\ loading = TRUE
  /\ selectedBooth = ""
  /\ reportLineLength = ""
  /\ reportWaitTime = ""
  /\ isReporting = FALSE
  /\ timers = << >>
  /\ jobs = << >>
  /\ dbReports = << >>

(***************************************************************************)
(* SeatingChart: section hit-test (handleChartClick, the find callback).   *)
(***************************************************************************)
Digits == << "0", "1", "2", "3", "4", "5", "6", "7", "8", "9" >>

IsDigit(c) == \E i \in 1..10 : Digits[i] = c

DigitVal(c) == (CHOOSE i \in 1..10 : Digits[i] = c) - 1

\* pathData.match(/\d+/g)?.map(Number): the maximal runs of digits, as numbers.
\* run is the number being read (<<>> between runs), acc the numbers read.
RECURSIVE MatchDigits(_, _, _, _)
MatchDigits(path, i, run, acc) ==
  IF i > Len(path) THEN acc \o run
  ELSE IF IsDigit(path[i])
       THEN MatchDigits(path, i + 1,
              << (IF run = << >> THEN 0 ELSE 10 * run[1]) + DigitVal(path[i]) >>,
              acc)
       ELSE MatchDigits(path, i + 1, << >>, acc \o run)

Numbers(path) == MatchDigits(path, 1, << >>, << >>)

\* pathData.includes(ch)
Includes(path, ch) == \E i \in 1..Len(path) : path[i] = ch

Min4(a, b, c, d) == CHOOSE m \in {a, b, c, d} : \A k \in {a, b, c, d} : m <= k

Max4(a, b, c, d) == CHOOSE m \in {a, b, c, d} : \A k \in {a, b, c, d} : m >= k

\* SectionHit with the box's edges excluded.
SectionHitStrict(section, x, y) ==
  /\ Includes(section.path, "M")
  /\ Includes(section.path, "L")
  /\ Includes(section.path, "Z")
  /\ LET coords == Numbers(section.path)
     IN  /\ Len(coords) >= 8
         /\ RLt(RInt(Min4(coords[1], coords[3], coords[5], coords[7])), x)
         /\ RLt(x, RInt(Max4(coords[1], coords[3], coords[5], coords[7])))
         /\ RLt(RInt(Min4(coords[2], coords[4], coords[6], coords[8])), y)
         /\ RLt(y, RInt(Max4(coords[2], coords[4], coords[6], coords[8])))

\* The callback of venueData.sections.find: x and y are rationals.
SectionHit(section, x, y) ==
  /\ Includes(section.path, "M")
  /\ Includes(section.path, "L")
  /\ Includes(section.path, "Z")
  /\ LET coords == Numbers(section.path)
     IN  /\ Len(coords) >= 8
         /\ RLe(RInt(Min4(coords[1], coords[3], coords[5], coords[7])), x)
         /\ RLe(x, RInt(Max4(coords[1], coords[3], coords[5], coords[7])))
         /\ RLe(RInt(Min4(coords[2], coords[4], coords[6], coords[8])), y)
         /\ RLe(y, RInt(Max4(coords[2], coords[4], coords[6], coords[8])))

\* Array.prototype.find from index i on, then ?.name
RECURSIVE FindSection(_, _, _, _)
FindSection(sections, i, x, y) ==
  IF i > Len(sections) THEN None
  ELSE IF SectionHit(sections[i], x, y) THEN Some(sections[i].name)
       ELSE FindSection(sections, i + 1, x, y)

\* clickedSection?.name
ClickedSectionName(sections, x, y) == FindSection(sections, 1, x, y)

(***************************************************************************)
(* SeatingChart: geometry.  The svg element carries                        *)
(* transform: translate(pan) scale(zoom), about the centre of its box      *)
(* (the default transform-origin), and getBoundingClientRect() is the box  *)
(* after that transform.  Positions are relative to the layout box.        *)
(***************************************************************************)
Origin == ChartSize \div 2

\* Where the logical coordinate u is drawn, for pan offset o.
Render(u, o) ==
  RAdd(RInt(o + Origin), RMul(zoom, RSub(u, RInt(Origin))))

\* svg.getBoundingClientRect().left / .top, for pan offset o
RectEdge(o) == Render(RInt(0), o)

\* (e.clientX - rect.left - pan.x) / zoom
LogicalCoord(client, o) ==
  RDiv(RSub(RSub(RInt(client), RectEdge(o)), RInt(o)), zoom)

ChartMounted ==
  user # None /\ selectedVenue # None /\ currentRoom # None

\* useState initial values of SeatingChart
ChartInit ==
  /\ zoom = RInt(1)
  /\ pan = [x |-> 0, y |-> 0]
  /\ isDragging = FALSE
  /\ dragStart = [x |-> 0, y |-> 0]

GestureInit == [phase |-> "idle", pos |-> [x |-> 50, y |-> 50], moved |-> FALSE]

Event(op, ok, toast) == [op |-> op, ok |-> ok, toast |-> toast]

NoEvent == Event("none", TRUE, "none")

NoSelection ==
  [called |-> FALSE, px |-> 0, py |-> 0, x |-> RInt(0), y |-> RInt(0),
   name |-> None, afterDrag |-> FALSE]

(***************************************************************************)
(* SeatingChart: handlers.                                                 *)
(***************************************************************************)
\* handleZoomIn without the Math.min clamp.
HandleZoomInUnclamped ==
  /\ ChartMounted
  /\ zoom' = RMul(zoom, ZoomStep)
  /\ selected' = NoSelection
  /\ lastEvent' = NoEvent
  /\ UNCHANGED << pan, isDragging, dragStart, gesture, appVars, storeVars >>
  /\ UNCHANGED << dialogVars, trackerVars >>

HandleZoomIn ==
  /\ ChartMounted
  /\ zoom' = RMin(RMul(zoom, ZoomStep), RInt(ZoomMax))
  /\ selected' = NoSelection
  /\ lastEvent' = NoEvent
  /\ UNCHANGED << pan, isDragging, dragStart, gesture, appVars, storeVars >>
  /\ UNCHANGED << dialogVars, trackerVars >>

HandleZoomOut ==
  /\ ChartMounted
  /\ zoom' = RMax(RDiv(zoom, ZoomStep), ZoomMin)
  /\ selected' = NoSelection
  /\ lastEvent' = NoEvent
  /\ UNCHANGED << pan, isDragging, dragStart, gesture, appVars, storeVars >>
  /\ UNCHANGED << dialogVars, trackerVars >>

HandleReset ==
  /\ ChartMounted
  /\ zoom' = RInt(1)
  /\ pan' = [x |-> 0, y |-> 0]
  /\ selected' = NoSelection
  /\ lastEvent' = NoEvent
  /\ UNCHANGED << isDragging, dragStart, gesture, appVars, storeVars >>
  /\ UNCHANGED << dialogVars, trackerVars >>

\* handleMouseDown with the pointer itself as the anchor, the pan offset
\* forgotten.
HandleMouseDownAnchorPointer(button) ==
  /\ ChartMounted
  /\ gesture.phase = "idle"
  /\ IF button = 0
     THEN /\ isDragging' = TRUE
          /\ dragStart' = [x |-> gesture.pos.x, y |-> gesture.pos.y]
     ELSE UNCHANGED << isDragging, dragStart >>
  /\ gesture' = [gesture EXCEPT !.phase = IF button = 0 THEN "pressed" ELSE "auxpressed",
                                !.moved = FALSE]
  /\ selected' = NoSelection
  /\ lastEvent' = NoEvent
  /\ UNCHANGED << zoom, pan, appVars, storeVars >>
  /\ UNCHANGED << dialogVars, trackerVars >>

\* The button goes down where the pointer is.
HandleMouseDown(button) ==
  /\ ChartMounted
  /\ gesture.phase = "idle"
  /\ IF button = 0
     THEN /\ isDragging' = TRUE
          /\ dragStart' = [x |-> gesture.pos.x - pan.x, y |-> gesture.pos.y - pan.y]
     ELSE UNCHANGED << isDragging, dragStart >>
  /\ gesture' = [gesture EXCEPT !.phase = IF button = 0 THEN "pressed" ELSE "auxpressed",
                                !.moved = FALSE]
  /\ selected' = NoSelection
  /\ lastEvent' = NoEvent
  /\ UNCHANGED << zoom, pan, appVars, storeVars >>
  /\ UNCHANGED << dialogVars, trackerVars >>

\* The pointer moves to p.  No move comes between a release and its click.
HandleMouseMove(p) ==
  /\ ChartMounted
  /\ gesture.phase # "released"
  /\ p # gesture.pos
  /\ pan' = IF isDragging
            THEN [x |-> p.x - dragStart.x, y |-> p.y - dragStart.y]
            ELSE pan
  /\ Abs(pan'.x) <= MaxPan /\ Abs(pan'.y) <= MaxPan
  /\ gesture' = [gesture EXCEPT !.pos = p, !.moved = gesture.moved \/ pan' # pan]
  /\ selected' = NoSelection
  /\ lastEvent' = NoEvent
  /\ UNCHANGED << zoom, isDragging, dragStart, appVars, storeVars >>
  /\ UNCHANGED << dialogVars, trackerVars >>

\* The button comes up over the chart; a primary release is followed by a click.
HandleMouseUp ==
  /\ ChartMounted
  /\ gesture.phase \in {"pressed", "auxpressed"}
  /\ isDragging' = FALSE
  /\ gesture' = [gesture EXCEPT !.phase = IF gesture.phase = "pressed"
                                          THEN "released" ELSE "idle"]
  /\ selected' = NoSelection
  /\ lastEvent' = NoEvent
  /\ UNCHANGED << zoom, pan, dragStart, appVars, storeVars >>
  /\ UNCHANGED << dialogVars, trackerVars >>

\* onMouseLeave={handleMouseUp}: the button, if down, comes up elsewhere.
HandleMouseLeave ==
  /\ ChartMounted
  /\ gesture.phase \in {"pressed", "auxpressed"}
  /\ isDragging' = FALSE
  /\ gesture' = [gesture EXCEPT !.phase = "idle", !.moved = FALSE]
  /\ selected' = NoSelection
  /\ lastEvent' = NoEvent
  /\ UNCHANGED << zoom, pan, dragStart, appVars, storeVars >>
  /\ UNCHANGED << dialogVars, trackerVars >>

\* handleChartClick up to its call of the onLocationSelect prop: the click
\* that follows a primary release, at the pointer's position.
HandleChartClick ==
  /\ ChartMounted
  /\ gesture.phase = "released"
  /\ gesture' = [gesture EXCEPT !.phase = "idle", !.moved = FALSE]
  /\ selected' =
       IF isDragging THEN NoSelection
       ELSE LET x == LogicalCoord(gesture.pos.x, pan.x)
                y == LogicalCoord(gesture.pos.y, pan.y)
            IN  [called |-> TRUE, px |-> gesture.pos.x, py |-> gesture.pos.y,
                 x |-> x, y |-> y,
                 name |-> ClickedSectionName(VenueSections(selectedVenue[1]), x, y),
                 afterDrag |-> gesture.moved]
  /\ lastEvent' = NoEvent
  /\ UNCHANGED << zoom, pan, isDragging, dragStart >>
  /\ UNCHANGED << dialogVars, trackerVars >>

\* The component on its own: the prop only records the call.
ChartClickIsolated ==
  /\ HandleChartClick
  /\ UNCHANGED << appVars, storeVars >>

(***************************************************************************)
(* The chart on its own, mounted for a venue of the store, in a room.      *)
(***************************************************************************)
RoomRecord(id, venue, creator) ==
  [id |-> id, name |-> "show", venue_id |-> venue, created_by |-> creator]

InitChart ==
  /\ ChartInit
  /\ gesture = GestureInit
  /\ selected = NoSelection
  /\ user = Some(Me)
  /\ venues = AllVenues
  /\ \E v \in AllVenues :
       /\ selectedVenue = Some(v)
       /\ currentRoom = Some(RoomRecord(<< "B" >>, v, Me))
       /\ dbRooms = { RoomRecord(<< "B" >>, v, Me) }
  /\ userLocations = << >>
  /\ myLocation = None
  /\ subs = << << "B" >> >>
  /\ tasks = << >>
  /\ inbox = {}
  /\ lastEvent = NoEvent
  /\ left = {}
  /\ dbLocations = << >>
  /\ TrackerUnmounted
  /\ DialogInit

NextChart ==
  \/ HandleZoomIn
  \/ HandleZoomOut
  \/ HandleReset
  \/ \E b \in Buttons : HandleMouseDown(b)
  \/ \E p \in Points : HandleMouseMove(p)
  \/ HandleMouseUp
  \/ HandleMouseLeave
  \/ ChartClickIsolated

SpecChart == InitChart /\ [][NextChart]_vars

(***************************************************************************)
(* The external store and the realtime channel.                            *)
(***************************************************************************)
\* Most handlers in flight at once, and most messages on their way at once
\* (the channel delivers at most once: a message beyond that is lost).
MaxTasks == 2

MaxInbox == 1

\* Where the pointer rests, and where the friend's clicks fall.
RoomPoints == { [x |-> 50, y |-> 50], [x |-> 150, y |-> 150] }

\* What the user types into the join dialog.
EnteredCodes == { << " ", "b" >>, << "Z" >> }

\* maxLength={6} of the room code input
InputMaxLength == 6

\* `${user.id}-${currentRoom.id}`
LocationId(userId, roomId) == userId \o << "-" >> \o roomId

\* locationData of handleLocationUpdate (user_name, user_avatar and seat_info,
\* which no handler reads, are left out)
LocationData(userId, roomId, x, y, name) ==
  [id |-> LocationId(userId, roomId), room_id |-> roomId, user_id |-> userId,
   x_position |-> x, y_position |-> y, section_name |-> name]

\* user_locations is kept most recently written first (updated_at desc).
\* upsert: the row replaces the one with its id.
Upsert(rows, row) == << row >> \o SelectSeq(rows, LAMBDA r : r.id # row.id)

\* delete(id)
Delete(rows, id) == SelectSeq(rows, LAMBDA r : r.id # id)

\* list({ where: { room_id }, orderBy: { updated_at: 'desc' } })
ListByRoom(rows, roomId) == SelectSeq(rows, LAMBDA r : r.room_id = roomId)

\* roomCode.trim().toUpperCase()
ToUpperChar(c) ==
  CASE c = "b" -> "B" [] c = "c" -> "C" [] c = "z" -> "Z" [] OTHER -> c

RECURSIVE TrimLeft(_)
TrimLeft(str) ==
  IF str # << >> /\ Head(str) = " " THEN TrimLeft(Tail(str)) ELSE str

RECURSIVE TrimRight(_)
TrimRight(str) ==
  IF str # << >> /\ str[Len(str)] = " "
  THEN TrimRight(SubSeq(str, 1, Len(str) - 1)) ELSE str

Trim(str) == TrimRight(TrimLeft(str))

ToUpperCase(str) == [i \in 1..Len(str) |-> ToUpperChar(str[i])]

\* rooms.list that ignores the id asked for.
RoomsWithIdAny(id) == dbRooms

\* rooms.list({ where: { id, is_active: "1" } }): rooms are stored active.
RoomsWithId(id) == { r \in dbRooms : r.id = id }

\* A realtime message on the channel room-<roomId>.
Message(roomId, type, userId, loc) ==
  [ch |-> roomId, type |-> type, userId |-> userId, loc |-> loc]

\* blink.realtime.publish, as far as this client sees it: the message sets
\* off for this client if it holds a subscription to the channel; the
\* channel may lose it.
Broadcast(box, m) ==
  IF \E k \in 1..Len(subs) : subs[k] = m.ch
  THEN { box \cup {m}, box } \cap { b \in SUBSET (box \cup {m}) : Cardinality(b) <= MaxInbox }
  ELSE { box }

(***************************************************************************)
(* App: the realtime handler and the room change.                          *)
(***************************************************************************)
\* The subscription callback with its filter dropped: entries pile up.
ApplyMessageNoFilter(prev, m) ==
  IF m.type = "location-update" THEN Append(prev, m.loc[1])
  ELSE SelectSeq(prev, LAMBDA loc : loc.user_id # m.userId)

\* The subscription callback of App: setUserLocations(prev => ...)
ApplyMessage(prev, m) ==
  IF m.type = "location-update"
  THEN Append(SelectSeq(prev, LAMBDA loc : loc.user_id # m.loc[1].user_id), m.loc[1])
  ELSE IF m.type = "user-left"
       THEN SelectSeq(prev, LAMBDA loc : loc.user_id # m.userId)
       ELSE prev

\* The effect that keeps the previous subscription when currentRoom changes.
SubscriptionEffectLeaky(old, room) ==
  IF room = None THEN old ELSE Append(old, room[1].id)

\* useEffect(..., [currentRoom]): the cleanup of the previous run
\* unsubscribes, then the effect subscribes to the new room's channel.
SubscriptionEffect(old, room) ==
  IF room = None THEN << >> ELSE << room[1].id >>

Task(kind, pc, room, loc, rid, rows) ==
  [kind |-> kind, pc |-> pc, room |-> room, loc |-> loc, rid |-> rid, rows |-> rows]

RemoveAt(seq, i) == SubSeq(seq, 1, i - 1) \o SubSeq(seq, i + 1, Len(seq))

\* onRoomChange of App (the prop given to RoomManager), with the render that
\* follows: the subscription effect runs, and SeatingChart is unmounted (its
\* state is lost) when there is no room.  rest: the handlers still in
\* flight; byLeave: the call comes from leaveRoom.
OnRoomChange(room, rest, byLeave) ==
  /\ currentRoom' = room
  /\ subs' = SubscriptionEffect(subs, room)
  /\ IF room # None
     THEN /\ tasks' = Append(rest, Task("load", "list", room, None, room[1].id, << >>))
          /\ left' = left \ { room[1].id }
          /\ UNCHANGED << userLocations, myLocation >>
     ELSE /\ tasks' = rest
          /\ userLocations' = << >>
          /\ myLocation' = None
          /\ left' = IF byLeave /\ currentRoom # None
                     THEN left \cup { currentRoom[1].id } ELSE left
  /\ IF room = None
     THEN /\ zoom' = RInt(1)
          /\ pan' = [x |-> 0, y |-> 0]
          /\ isDragging' = FALSE
          /\ dragStart' = [x |-> 0, y |-> 0]
          /\ gesture' = [gesture EXCEPT !.phase = "idle", !.moved = FALSE]
     ELSE UNCHANGED chartVars

(***************************************************************************)
(* App: handleLocationUpdate.                                              *)
(***************************************************************************)
\* handleLocationUpdate that returns at its guard whatever the state.
HandleLocationUpdateReturns(x, y, name) == UNCHANGED appVars

\* handleLocationUpdate up to its first await: the upsert is sent.
HandleLocationUpdate(x, y, name) ==
  IF user = None \/ currentRoom = None
  THEN UNCHANGED appVars
  ELSE /\ tasks' = Append(tasks,
            Task("update", "upsert", currentRoom,
                 Some(LocationData(user[1], currentRoom[1].id, x, y, name)),
                 currentRoom[1].id, << >>))
       /\ UNCHANGED << user, selectedVenue, currentRoom, userLocations, myLocation,
                       subs, venues, inbox, left >>

\* SeatingChart as App renders it: onLocationSelect={handleLocationUpdate}.
ChartClick ==
  /\ Len(tasks) < MaxTasks
  /\ HandleChartClick
  /\ IF selected'.called
     THEN HandleLocationUpdate(selected'.x, selected'.y, selected'.name)
     ELSE UNCHANGED appVars
  /\ UNCHANGED storeVars

\* The upsert whose failure is swallowed: the handler goes on to publish.
UpsertDoneSwallowed(i, ok) ==
  /\ tasks[i].kind = "update" /\ tasks[i].pc = "upsert"
  /\ dbLocations' = IF ok THEN Upsert(dbLocations, tasks[i].loc[1]) ELSE dbLocations
  /\ myLocation' = Some([x |-> tasks[i].loc[1].x_position,
                         y |-> tasks[i].loc[1].y_position])
  /\ tasks' = [tasks EXCEPT ![i].pc = "publish"]
  /\ lastEvent' = NoEvent
  /\ selected' = NoSelection
  /\ UNCHANGED << chartVars, user, selectedVenue, currentRoom, userLocations,
                  subs, venues, inbox, left, dbRooms >>
  /\ UNCHANGED << dialogVars, trackerVars >>

\* await blink.db.user_locations.upsert(locationData) returns or throws.
UpsertDone(i, ok) ==
  /\ tasks[i].kind = "update" /\ tasks[i].pc = "upsert"
  /\ IF ok
     THEN /\ dbLocations' = Upsert(dbLocations, tasks[i].loc[1])
          /\ myLocation' = Some([x |-> tasks[i].loc[1].x_position,
                                 y |-> tasks[i].loc[1].y_position])
          /\ tasks' = [tasks EXCEPT ![i].pc = "publish"]
          /\ lastEvent' = NoEvent
     ELSE /\ tasks' = RemoveAt(tasks, i)
          /\ lastEvent' = Event("update", FALSE, "Error")
          /\ UNCHANGED << dbLocations, myLocation >>
  /\ selected' = NoSelection
  /\ UNCHANGED << chartVars, user, selectedVenue, currentRoom, userLocations,
                  subs, venues, inbox, left, dbRooms >>
  /\ UNCHANGED << dialogVars, trackerVars >>

\* await blink.realtime.publish(..., 'location-update', locationData)
PublishDone(i, ok) ==
  /\ tasks[i].kind = "update" /\ tasks[i].pc = "publish"
  /\ tasks' = RemoveAt(tasks, i)
  /\ IF ok
     THEN /\ inbox' \in Broadcast(inbox,
               Message(tasks[i].rid, "location-update", tasks[i].loc[1].user_id, tasks[i].loc))
          /\ lastEvent' = Event("update", TRUE, "Location updated!")
     ELSE /\ lastEvent' = Event("update", FALSE, "Error")
          /\ UNCHANGED inbox
  /\ selected' = NoSelection
  /\ UNCHANGED << chartVars, user, selectedVenue, currentRoom, userLocations,
                  myLocation, subs, venues, left, storeVars >>
  /\ UNCHANGED << dialogVars, trackerVars >>

(***************************************************************************)
(* App: loadRoomLocations.                                                 *)
(***************************************************************************)
\* The store reads the room's rows for a list request in flight.
LoadServed(i) ==
  /\ tasks[i].kind = "load" /\ tasks[i].pc = "list"
  /\ tasks' = [tasks EXCEPT ![i].pc = "listed",
                            ![i].rows = ListByRoom(dbLocations, tasks[i].rid)]
  /\ selected' = NoSelection
  /\ lastEvent' = NoEvent
  /\ UNCHANGED << chartVars, user, selectedVenue, currentRoom, userLocations,
                  myLocation, subs, venues, inbox, left, storeVars >>
  /\ UNCHANGED << dialogVars, trackerVars >>

\* await blink.db.user_locations.list(...) returns or throws.
LoadDone(i, ok) ==
  /\ tasks[i].kind = "load"
  /\ IF ok
     THEN /\ tasks[i].pc = "listed"
          /\ userLocations' = tasks[i].rows
          /\ LET mine == SelectSeq(tasks[i].rows,
                                   LAMBDA loc : user # None /\ loc.user_id = user[1])
             IN  myLocation' = IF mine # << >>
                               THEN Some([x |-> mine[1].x_position, y |-> mine[1].y_position])
                               ELSE myLocation
     ELSE UNCHANGED << userLocations, myLocation >>
  /\ tasks' = RemoveAt(tasks, i)
  /\ selected' = NoSelection
  /\ lastEvent' = NoEvent
  /\ UNCHANGED << chartVars, user, selectedVenue, currentRoom, subs, venues,
                  inbox, left, storeVars >>
  /\ UNCHANGED << dialogVars, trackerVars >>

(***************************************************************************)
(* App: the realtime subscription.                                         *)
(***************************************************************************)
\* A message arrives; every handler subscribed to its channel runs.
Deliver(m) ==
  /\ m \in inbox
  /\ inbox' = inbox \ {m}
  /\ LET n == Cardinality({ k \in 1..Len(subs) : subs[k] = m.ch })
     IN  userLocations' =
           IF n = 0 THEN userLocations
           ELSE IF n = 1 THEN ApplyMessage(userLocations, m)
           ELSE ApplyMessage(ApplyMessage(userLocations, m), m)
  /\ selected' = NoSelection
  /\ lastEvent' = NoEvent
  /\ UNCHANGED << chartVars, user, selectedVenue, currentRoom, myLocation, subs,
                  venues, tasks, left, storeVars >>
  /\ UNCHANGED << dialogVars, trackerVars >>

\* The channel loses a message.
DropMessage(m) ==
  /\ m \in inbox
  /\ inbox' = inbox \ {m}
  /\ selected' = NoSelection
  /\ lastEvent' = NoEvent
  /\ UNCHANGED << chartVars, user, selectedVenue, currentRoom, userLocations,
                  myLocation, subs, venues, tasks, left, storeVars >>
  /\ UNCHANGED << dialogVars, trackerVars >>

(***************************************************************************)
(* VenueSelector and RoomManager.                                          *)
(***************************************************************************)
\* handleVenueChange, with the render that follows: without a venue
\* SeatingChart is unmounted.
HandleVenueChange(venue) ==
  /\ user # None
  /\ IF venue = "none"
     THEN /\ selectedVenue' = None
          /\ zoom' = RInt(1)
          /\ pan' = [x |-> 0, y |-> 0]
          /\ isDragging' = FALSE
          /\ dragStart' = [x |-> 0, y |-> 0]
          /\ gesture' = [gesture EXCEPT !.phase = "idle", !.moved = FALSE]
     ELSE /\ selectedVenue' = IF venue \in venues THEN Some(venue) ELSE selectedVenue
          /\ UNCHANGED chartVars
  /\ selected' = NoSelection
  /\ lastEvent' = NoEvent
  /\ UNCHANGED << user, currentRoom, userLocations, myLocation, subs, venues,
                  tasks, inbox, left, storeVars >>
  /\ UNCHANGED << dialogVars, trackerVars >>

\* generateRoomId() can also give a code with a hyphen in it.
GenerateRoomIdHyphen == RoomCodes \cup { << "B", "-", "C" >> }

\* The values generateRoomId() can return.
GenerateRoomId == RoomCodes

\* createRoom up to its await: the create is sent.
CreateRoom(roomId) ==
  /\ user # None /\ currentRoom = None
  /\ selectedVenue # None
  /\ Len(tasks) < MaxTasks
  /\ tasks' = Append(tasks,
       Task("create", "create", Some(RoomRecord(roomId, selectedVenue[1], user[1])),
            None, roomId, << >>))
  /\ selected' = NoSelection
  /\ lastEvent' = NoEvent
  /\ UNCHANGED << chartVars, user, selectedVenue, currentRoom, userLocations,
                  myLocation, subs, venues, inbox, left, storeVars >>
  /\ UNCHANGED << dialogVars, trackerVars >>

\* await blink.db.rooms.create(room) returns or throws (it throws for an id
\* that is taken).
CreateDone(i, ok) ==
  /\ tasks[i].kind = "create"
  /\ ok => RoomsWithId(tasks[i].rid) = {}
  /\ IF ok
     THEN /\ dbRooms' = dbRooms \cup { tasks[i].room[1] }
          /\ OnRoomChange(tasks[i].room, RemoveAt(tasks, i), FALSE)
          /\ lastEvent' = Event("create", TRUE, "Room created!")
     ELSE /\ tasks' = RemoveAt(tasks, i)
          /\ lastEvent' = Event("create", FALSE, "Error")
          /\ UNCHANGED << chartVars, currentRoom, userLocations, myLocation,
                          subs, left, dbRooms >>
  /\ selected' = NoSelection
  /\ UNCHANGED << user, selectedVenue, venues, inbox, dbLocations >>
  /\ UNCHANGED << dialogVars, trackerVars >>

\* The Join button of the room card opens the dialog.
OpenJoinDialog ==
  /\ user # None /\ currentRoom = None
  /\ ~showJoinDialog
  /\ showJoinDialog' = TRUE
  /\ selected' = NoSelection
  /\ lastEvent' = NoEvent
  /\ UNCHANGED << chartVars, appVars, storeVars, roomCode, entered, trackerVars >>

\* The Cancel button of the join dialog.
CancelJoinDialog ==
  /\ user # None /\ currentRoom = None
  /\ showJoinDialog
  /\ showJoinDialog' = FALSE
  /\ selected' = NoSelection
  /\ lastEvent' = NoEvent
  /\ UNCHANGED << chartVars, appVars, storeVars, roomCode, entered, trackerVars >>

\* maxLength={6} of the room code input: the field takes no more characters.
InputValue(text) ==
  IF Len(text) > InputMaxLength THEN SubSeq(text, 1, InputMaxLength) ELSE text

\* onChange of the room code input: setRoomCode(e.target.value.toUpperCase())
SetRoomCode(text) ==
  /\ user # None /\ currentRoom = None
  /\ showJoinDialog
  /\ entered' = text
  /\ roomCode' = ToUpperCase(InputValue(text))
  /\ << roomCode', entered' >> # << roomCode, entered >>
  /\ selected' = NoSelection
  /\ lastEvent' = NoEvent
  /\ UNCHANGED << chartVars, appVars, storeVars, showJoinDialog, trackerVars >>

\* joinRoom up to its await: the lookup is sent.
JoinRoom ==
  /\ user # None /\ currentRoom = None
  /\ showJoinDialog
  /\ Trim(roomCode) # << >>
  /\ Len(tasks) < MaxTasks
  /\ tasks' = Append(tasks,
       Task("join", "list", None, None, ToUpperCase(Trim(roomCode)), << >>))
  /\ selected' = NoSelection
  /\ lastEvent' = NoEvent
  /\ UNCHANGED << chartVars, user, selectedVenue, currentRoom, userLocations,
                  myLocation, subs, venues, inbox, left, storeVars >>
  /\ UNCHANGED << dialogVars, trackerVars >>

\* await blink.db.rooms.list(...) returns or throws.
JoinDone(i, ok) ==
  /\ tasks[i].kind = "join"
  /\ IF ok /\ RoomsWithId(tasks[i].rid) # {}
     THEN /\ \E room \in RoomsWithId(tasks[i].rid) :
               OnRoomChange(Some(room), RemoveAt(tasks, i), FALSE)
          /\ showJoinDialog' = FALSE
          /\ roomCode' = << >>
          /\ entered' = << >>
          /\ lastEvent' = Event("join", TRUE, "Joined room!")
     ELSE /\ tasks' = RemoveAt(tasks, i)
          /\ lastEvent' = IF ok THEN Event("join", TRUE, "Room not found")
                          ELSE Event("join", FALSE, "Error")
          /\ UNCHANGED << chartVars, currentRoom, userLocations, myLocation, subs, left >>
          /\ UNCHANGED dialogVars
  /\ selected' = NoSelection
  /\ UNCHANGED << user, selectedVenue, venues, inbox, storeVars >>
  /\ UNCHANGED trackerVars

\* leaveRoom up to its first await: 'user-left' is being published.
LeaveRoom ==
  /\ user # None /\ currentRoom # None
  /\ Len(tasks) < MaxTasks
  /\ tasks' = Append(tasks,
       Task("leave", "publish", currentRoom, None, currentRoom[1].id, << >>))
  /\ selected' = NoSelection
  /\ lastEvent' = NoEvent
  /\ UNCHANGED << chartVars, user, selectedVenue, currentRoom, userLocations,
                  myLocation, subs, venues, inbox, left, storeVars >>
  /\ UNCHANGED << dialogVars, trackerVars >>

\* await blink.realtime.publish(..., 'user-left', ...) returns or throws;
\* the catch block of leaveRoom only logs.
LeavePublished(i, ok) ==
  /\ tasks[i].kind = "leave" /\ tasks[i].pc = "publish"
  /\ IF ok
     THEN /\ inbox' \in Broadcast(inbox, Message(tasks[i].rid, "user-left", user[1], None))
          /\ tasks' = [tasks EXCEPT ![i].pc = "delete"]
          /\ lastEvent' = NoEvent
     ELSE /\ tasks' = RemoveAt(tasks, i)
          /\ lastEvent' = Event("leave", FALSE, "none")
          /\ UNCHANGED inbox
  /\ selected' = NoSelection
  /\ UNCHANGED << chartVars, user, selectedVenue, currentRoom, userLocations,
                  myLocation, subs, venues, left, storeVars >>
  /\ UNCHANGED << dialogVars, trackerVars >>

\* await blink.db.user_locations.delete(...) returns or throws.
LeaveDeleted(i, ok) ==
  /\ tasks[i].kind = "leave" /\ tasks[i].pc = "delete"
  /\ IF ok
     THEN /\ dbLocations' = Delete(dbLocations, LocationId(user[1], tasks[i].rid))
          /\ OnRoomChange(None, RemoveAt(tasks, i), TRUE)
          /\ lastEvent' = Event("leave", TRUE, "Left room")
     ELSE /\ tasks' = RemoveAt(tasks, i)
          /\ lastEvent' = Event("leave", FALSE, "none")
          /\ UNCHANGED << chartVars, currentRoom, userLocations, myLocation,
                          subs, left, dbLocations >>
  /\ selected' = NoSelection
  /\ UNCHANGED << user, selectedVenue, venues, inbox, dbRooms >>
  /\ UNCHANGED << dialogVars, trackerVars >>

(***************************************************************************)
(* Another client, signed in as Friend, running the same handlers: seen    *)
(* from here, its writes to the store and its messages on the channel.     *)
(***************************************************************************)
\* handleLocationUpdate of the friend, in a room of the store.
FriendUpdate(roomId, p) ==
  /\ RoomsWithId(roomId) # {}
  /\ LET loc == LocationData(Friend, roomId, RInt(p.x), RInt(p.y), None)
     IN  /\ dbLocations' = Upsert(dbLocations, loc)
         /\ inbox' \in Broadcast(inbox, Message(roomId, "location-update", Friend, Some(loc)))
  /\ selected' = NoSelection
  /\ lastEvent' = NoEvent
  /\ UNCHANGED << chartVars, user, selectedVenue, currentRoom, userLocations,
                  myLocation, subs, venues, tasks, left, dbRooms >>
  /\ UNCHANGED << dialogVars, trackerVars >>

\* leaveRoom of the friend.
FriendLeave(roomId) ==
  /\ \E k \in 1..Len(dbLocations) : dbLocations[k].id = LocationId(Friend, roomId)
  /\ dbLocations' = Delete(dbLocations, LocationId(Friend, roomId))
  /\ inbox' \in Broadcast(inbox, Message(roomId, "user-left", Friend, None))
  /\ selected' = NoSelection
  /\ lastEvent' = NoEvent
  /\ UNCHANGED << chartVars, user, selectedVenue, currentRoom, userLocations,
                  myLocation, subs, venues, tasks, left, dbRooms >>
  /\ UNCHANGED << dialogVars, trackerVars >>

\* createRoom of the friend, once its create has succeeded.
FriendCreate(roomId) ==
  /\ RoomsWithId(roomId) = {}
  /\ dbRooms' = dbRooms \cup { RoomRecord(roomId, "arena", Friend) }
  /\ selected' = NoSelection
  /\ lastEvent' = NoEvent
  /\ UNCHANGED << chartVars, appVars, dbLocations >>
  /\ UNCHANGED << dialogVars, trackerVars >>

\* The pointer comes to rest on another point of the chart, no button down.
Hover(p) ==
  /\ gesture.phase = "idle"
  /\ HandleMouseMove(p)

(***************************************************************************)
(* The client, from a signed-in user with the venues loaded.               *)
(***************************************************************************)
Init ==
  /\ ChartInit
  /\ gesture = GestureInit
  /\ selected = NoSelection
  /\ user = Some(Me)
  /\ venues = {"arena"}
  /\ selectedVenue = None
  /\ currentRoom = None
  /\ dbRooms = {}
  /\ userLocations = << >>
  /\ myLocation = None
  /\ subs = << >>
  /\ tasks = << >>
  /\ inbox = {}
  /\ lastEvent = NoEvent
  /\ left = {}
  /\ dbLocations = << >>
  /\ TrackerUnmounted
  /\ DialogInit

Next ==
  \/ \E v \in venues \cup {"none"} : HandleVenueChange(v)
  \/ \E id \in GenerateRoomId : CreateRoom(id)
  \/ \E i \in 1..Len(tasks), ok \in BOOLEAN : CreateDone(i, ok)
  \/ OpenJoinDialog
  \/ CancelJoinDialog
  \/ \E text \in EnteredCodes : SetRoomCode(text)
  \/ JoinRoom
  \/ \E i \in 1..Len(tasks), ok \in BOOLEAN : JoinDone(i, ok)
  \/ LeaveRoom
  \/ \E i \in 1..Len(tasks), ok \in BOOLEAN : LeavePublished(i, ok)
  \/ \E i \in 1..Len(tasks), ok \in BOOLEAN : LeaveDeleted(i, ok)
  \/ HandleMouseDown(0)
  \/ HandleMouseUp
  \/ ChartClick
  \/ \E i \in 1..Len(tasks), ok \in BOOLEAN : UpsertDone(i, ok)
  \/ \E i \in 1..Len(tasks), ok \in BOOLEAN : PublishDone(i, ok)
  \/ \E i \in 1..Len(tasks) : LoadServed(i)
  \/ \E i \in 1..Len(tasks), ok \in BOOLEAN : LoadDone(i, ok)
  \/ \E m \in inbox : Deliver(m)
  \/ \E m \in inbox : DropMessage(m)

Spec == Init /\ [][Next]_vars

(***************************************************************************)
(* The client in a room it has just joined, with a friend in the room.     *)
(***************************************************************************)
InitFriends ==
  /\ ChartInit
  /\ gesture = GestureInit
  /\ selected = NoSelection
  /\ lastEvent = NoEvent
  /\ user = Some(Me)
  /\ venues = {"arena"}
  /\ selectedVenue = Some("arena")
  /\ currentRoom = Some(RoomRecord(<< "B" >>, "arena", Friend))
  /\ dbRooms = { RoomRecord(<< "B" >>, "arena", Friend) }
  /\ userLocations = << >>
  /\ myLocation = None
  /\ subs = << << "B" >> >>
  /\ tasks = << Task("load", "list", currentRoom, None, << "B" >>, << >>) >>
  /\ inbox = {}
  /\ left = {}
  /\ dbLocations = << >>
  /\ TrackerUnmounted
  /\ DialogInit

NextFriends ==
  \/ \E p \in RoomPoints : Hover(p)
  \/ HandleMouseDown(0)
  \/ HandleMouseUp
  \/ ChartClick
  \/ \E i \in 1..Len(tasks), ok \in BOOLEAN : UpsertDone(i, ok)
  \/ \E i \in 1..Len(tasks), ok \in BOOLEAN : PublishDone(i, ok)
  \/ \E i \in 1..Len(tasks) : LoadServed(i)
  \/ \E i \in 1..Len(tasks), ok \in BOOLEAN : LoadDone(i, ok)
  \/ \E m \in inbox : Deliver(m)
  \/ \E m \in inbox : DropMessage(m)
  \/ \E p \in RoomPoints : FriendUpdate(<< "B" >>, p)
  \/ FriendLeave(<< "B" >>)

SpecFriends == InitFriends /\ [][NextFriends]_vars

(***************************************************************************)
(* The store under the writes of both users: the client creates a room and *)
(* marks its place in it, the friend creates rooms and marks its place.    *)
(***************************************************************************)
InitStore ==
  /\ ChartInit
  /\ gesture = GestureInit
  /\ selected = NoSelection
  /\ lastEvent = NoEvent
  /\ user = Some(Me)
  /\ venues = {"arena"}
  /\ selectedVenue = Some("arena")
  /\ currentRoom = None
  /\ dbRooms = {}
  /\ userLocations = << >>
  /\ myLocation = None
  /\ subs = << >>
  /\ tasks = << >>
  /\ inbox = {}
  /\ left = {}
  /\ dbLocations = << >>
  /\ TrackerUnmounted
  /\ DialogInit

NextStore ==
  \/ \E id \in GenerateRoomId : CreateRoom(id)
  \/ \E i \in 1..Len(tasks), ok \in BOOLEAN : CreateDone(i, ok)
  \/ HandleMouseDown(0)
  \/ HandleMouseUp
  \/ ChartClick
  \/ \E i \in 1..Len(tasks), ok \in BOOLEAN : UpsertDone(i, ok)
  \/ \E i \in 1..Len(tasks), ok \in BOOLEAN : PublishDone(i, ok)
  \/ \E i \in 1..Len(tasks) : LoadServed(i)
  \/ \E i \in 1..Len(tasks), ok \in BOOLEAN : LoadDone(i, ok)
  \/ \E m \in inbox : Deliver(m)
  \/ \E m \in inbox : DropMessage(m)
  \/ \E id \in GenerateRoomId : FriendCreate(id)
  \/ \E id \in GenerateRoomId : FriendUpdate(id, [x |-> 150, y |-> 150])

SpecStore == InitStore /\ [][NextStore]_vars

(***************************************************************************)
(* MerchBoothTracker: the aggregation of loadBoothStatuses.                *)
(***************************************************************************)
\* Handlers of MerchBoothTracker suspended at an await, at most.
MaxJobs == 2

\* Rows of line_reports, at most, under the submissions of this client.
MaxReports == 2

\* limit: 20 of the line_reports query
ReportLimit == 20

\* recentReports.length >= 6
TrendReports == 6

\* slice(0, 3) and slice(3, 6), and the divisor 3
TrendWindow == 3

\* the margin 0.3 of the trend
TrendMargin == [n |-> 3, d |-> 10]

MerchBooth(id, venue) == [id |-> id, venue_id |-> venue]

\* The table merch_booths, in the order the store lists it: three booths at
\* "arena", two at "club", none at "hall".
DbBooths ==
  << MerchBooth("b1", "arena"), MerchBooth("b2", "arena"), MerchBooth("b3", "arena"),
     MerchBooth("b4", "club"), MerchBooth("b5", "club") >>

\* blink.db.merch_booths.list({ where: { venue_id: venueId } })
BoothsOf(venue) == SelectSeq(DbBooths, LAMBDA b : b.venue_id = venue)

\* A row of line_reports; wait_time_minutes is None for null, reported_at a
\* clock reading.
LineReport(id, boothId, userId, line, wait, at) ==
  [id |-> id, booth_id |-> boothId, user_id |-> userId, line_length |-> line,
   wait_time_minutes |-> wait, reported_at |-> at]

\* blink.db.line_reports.list({ where: { booth_id }, orderBy: { reported_at:
\* 'desc' }, limit: 20 }); the table is kept newest first.
ListReports(rows, boothId) ==
  LET of == SelectSeq(rows, LAMBDA r : r.booth_id = boothId)
  IN  SubSeq(of, 1, IF Len(of) < ReportLimit THEN Len(of) ELSE ReportLimit)

\* reduce((sum, report) => sum + report.line_length, 0)
RECURSIVE SumLine(_)
SumLine(reports) ==
  IF reports = << >> THEN 0
  ELSE Head(reports).line_length + SumLine(Tail(reports))

\* reduce((sum, report) => sum + (report.wait_time_minutes || 0), 0)
RECURSIVE SumWait(_)
SumWait(reports) ==
  IF reports = << >> THEN 0
  ELSE (IF Head(reports).wait_time_minutes = None THEN 0
        ELSE Head(reports).wait_time_minutes[1]) + SumWait(Tail(reports))

\* Math.round that rounds down: Math.floor.
MathRoundDown(q) == q.n \div q.d

\* Math.round: the integer nearest to q, halves going up.
MathRound(q) == (2 * q.n + q.d) \div (2 * q.d)

\* The trend that looks at the whole list of reports instead of six.
TrendOfAll(recentReports) ==
  IF Len(recentReports) >= TrendReports
  THEN LET recent3 == Rat(SumLine(SubSeq(recentReports, 1, TrendWindow)), TrendWindow)
           previous3 == Rat(SumLine(SubSeq(recentReports, TrendWindow + 1, Len(recentReports))),
                            TrendWindow)
       IN  IF RLt(RAdd(previous3, TrendMargin), recent3) THEN "up"
           ELSE IF RLt(recent3, RSub(previous3, TrendMargin)) THEN "down"
           ELSE "stable"
  ELSE "stable"

\* let trend = 'stable'; if (recentReports.length >= 6) { ... }
TrendOf(recentReports) ==
  IF Len(recentReports) >= TrendReports
  THEN LET recent3 == Rat(SumLine(SubSeq(recentReports, 1, TrendWindow)), TrendWindow)
           previous3 == Rat(SumLine(SubSeq(recentReports, TrendWindow + 1, 2 * TrendWindow)),
                            TrendWindow)
       IN  IF RLt(RAdd(previous3, TrendMargin), recent3) THEN "up"
           ELSE IF RLt(recent3, RSub(previous3, TrendMargin)) THEN "down"
           ELSE "stable"
  ELSE "stable"

\* The entry of statuses pushed for one booth; lastReported is << >> for ''.
BoothStatus(booth, recentReports) ==
  IF Len(recentReports) > 0
  THEN LET avgLineLength == Rat(SumLine(recentReports), Len(recentReports))
           reportsWithWaitTime ==
             SelectSeq(recentReports, LAMBDA r : r.wait_time_minutes # None)
           avgWaitTime ==
             IF Len(reportsWithWaitTime) > 0
             THEN Rat(SumWait(reportsWithWaitTime), Len(reportsWithWaitTime))
             ELSE RInt(0)
       IN  [booth |-> booth,
            avgLineLength |-> MathRound(avgLineLength),
            avgWaitTime |-> MathRound(avgWaitTime),
            lastReported |-> << recentReports[1].reported_at >>,
            reportCount |-> Len(recentReports),
            trend |-> TrendOf(recentReports)]
  ELSE [booth |-> booth, avgLineLength |-> 0, avgWaitTime |-> 0,
        lastReported |-> << >>, reportCount |-> 0, trend |-> "stable"]

\* A sort that puts an entry before the entries it ties with.
SortInsertBefore(sorted, status) ==
  SelectSeq(sorted, LAMBDA s : s.avgLineLength < status.avgLineLength)
    \o << status >>
    \o SelectSeq(sorted, LAMBDA s : s.avgLineLength >= status.avgLineLength)

\* One step of the stable sort: the entry goes behind the entries that do
\* not compare greater.
SortInsert(sorted, status) ==
  SelectSeq(sorted, LAMBDA s : s.avgLineLength <= status.avgLineLength)
    \o << status >>
    \o SelectSeq(sorted, LAMBDA s : s.avgLineLength > status.avgLineLength)

\* statuses.sort((a, b) => a.avgLineLength - b.avgLineLength): Array.sort is
\* stable.
RECURSIVE SortByLineLength(_)
SortByLineLength(statuses) ==
  IF statuses = << >> THEN << >>
  ELSE SortInsert(SortByLineLength(SubSeq(statuses, 1, Len(statuses) - 1)),
                  statuses[Len(statuses)])

(***************************************************************************)
(* MerchBoothTracker: the polling effect, the refresh and the report form. *)
(***************************************************************************)
\* The venueId props the tracker is rendered with.
TrackerVenues == {"", "club", "hall"}

\* The items of the line length and wait time selects that are chosen.
LineChoices == {"0", "3"}

WaitChoices == {"0"}

\* parseInt of the values of the select items
ParseInt(str) ==
  CASE str = "0" -> 0 [] str = "1" -> 1 [] str = "2" -> 2 [] str = "3" -> 3
    [] str = "5" -> 5 [] OTHER -> 10

\* A call of loadBoothStatuses or submitReport suspended at an await.  live:
\* the component instance it belongs to is still mounted.
Job(kind, pc, venue, booths, statuses, report, live) ==
  [kind |-> kind, pc |-> pc, venue |-> venue, booths |-> booths,
   statuses |-> statuses, report |-> report, live |-> live]

\* loadBoothStatuses() up to its first await, for the venueId of its closure.
LoadBoothStatuses(venue) == Job("refresh", "booths", venue, << >>, << >>, None, TRUE)

\* The polling effect that sets its interval and returns no cleanup.
PollingEffectLeaky(old, venue) ==
  IF venue # "" THEN Append(old, venue) ELSE old

\* useEffect(..., [venueId, loadBoothStatuses]): the cleanup of the previous
\* run clears its interval, then the effect sets one if venueId is not empty.
PollingEffect(old, venue) ==
  IF venue # "" THEN << venue >> ELSE << >>

\* line_reports.create that replaces the user's earlier report on the booth.
CreateReportReplacing(rows, report) ==
  << report >> \o SelectSeq(rows, LAMBDA r : ~(r.booth_id = report.booth_id
                                               /\ r.user_id = report.user_id))

\* blink.db.line_reports.create(report)
CreateReport(rows, report) == << report >> \o rows

\* The component is rendered with venueId = venue: state is initial, the
\* effect runs.
Mount(venue) ==
  /\ ~mounted
  /\ Len(jobs) < MaxJobs
  /\ mounted' = TRUE
  /\ venueId' = venue
  /\ timers' = PollingEffect(timers, venue)
  /\ jobs' = IF venue # "" THEN Append(jobs, LoadBoothStatuses(venue)) ELSE jobs
  /\ selected' = NoSelection
  /\ lastEvent' = NoEvent
  /\ UNCHANGED << boothStatuses, loading, selectedBooth, reportLineLength,
                  reportWaitTime, isReporting, dbReports >>
  /\ UNCHANGED << chartVars, appVars, storeVars, dialogVars >>

\* The venueId prop changes: the effect runs again.
ChangeVenue(venue) ==
  /\ mounted
  /\ venue # venueId
  /\ Len(jobs) < MaxJobs
  /\ venueId' = venue
  /\ timers' = PollingEffect(timers, venue)
  /\ jobs' = IF venue # "" THEN Append(jobs, LoadBoothStatuses(venue)) ELSE jobs
  /\ selected' = NoSelection
  /\ lastEvent' = NoEvent
  /\ UNCHANGED << mounted, boothStatuses, loading, selectedBooth, reportLineLength,
                  reportWaitTime, isReporting, dbReports >>
  /\ UNCHANGED << chartVars, appVars, storeVars, dialogVars >>

\* The component is torn down: the cleanup runs, the state is discarded, the
\* calls in flight go on without a component to set state on.
Unmount ==
  /\ mounted
  /\ mounted' = FALSE
  /\ venueId' = ""
  /\ timers' = PollingEffect(timers, "")
  /\ jobs' = [i \in 1..Len(jobs) |-> [jobs[i] EXCEPT !.live = FALSE]]
  /\ boothStatuses' = << >>
  /\ loading' = TRUE
  /\ selectedBooth' = ""
  /\ reportLineLength' = ""
  /\ reportWaitTime' = ""
  /\ isReporting' = FALSE
  /\ selected' = NoSelection
  /\ lastEvent' = NoEvent
  /\ UNCHANGED dbReports
  /\ UNCHANGED << chartVars, appVars, storeVars, dialogVars >>

\* An interval fires: setInterval(loadBoothStatuses, 30000)
Tick(k) ==
  /\ k \in 1..Len(timers)
  /\ Len(jobs) < MaxJobs
  /\ jobs' = Append(jobs, LoadBoothStatuses(timers[k]))
  /\ selected' = NoSelection
  /\ lastEvent' = Event("tick", TRUE, "none")
  /\ UNCHANGED << mounted, venueId, boothStatuses, loading, selectedBooth,
                  reportLineLength, reportWaitTime, isReporting, timers, dbReports >>
  /\ UNCHANGED << chartVars, appVars, storeVars, dialogVars >>

\* The catch block that shows the statuses gathered before the failure.
NextBoothStatusesPartial(prev, partial, result) ==
  IF result # None THEN result[1] ELSE partial

\* boothStatuses after loadBoothStatuses: setBoothStatuses(statuses) is its
\* only write, the catch block makes none.
NextBoothStatuses(prev, partial, result) ==
  IF result # None THEN result[1] ELSE prev

\* loadBoothStatuses of job i ends: with result = Some(statuses) it has
\* called setBoothStatuses(statuses), with None its catch block has logged;
\* the finally block runs; submitReport, if it awaited the call, resets the
\* form and its own finally block runs.
RefreshEnds(i, result) ==
  /\ jobs' = RemoveAt(jobs, i)
  /\ IF jobs[i].live
     THEN /\ boothStatuses' = NextBoothStatuses(boothStatuses, jobs[i].statuses, result)
          /\ loading' = FALSE
          /\ IF jobs[i].kind = "submit"
             THEN /\ selectedBooth' = ""
                  /\ reportLineLength' = ""
                  /\ reportWaitTime' = ""
                  /\ isReporting' = FALSE
             ELSE UNCHANGED << selectedBooth, reportLineLength, reportWaitTime,
                               isReporting >>
     ELSE UNCHANGED << boothStatuses, loading, selectedBooth, reportLineLength,
                       reportWaitTime, isReporting >>
  /\ lastEvent' = Event(IF jobs[i].kind = "submit" THEN "report" ELSE "refresh",
                        result # None, "none")

\* await blink.db.merch_booths.list(...) returns or throws.
BoothsListed(i, ok) ==
  /\ jobs[i].pc = "booths"
  /\ IF ok /\ BoothsOf(jobs[i].venue) # << >>
     THEN /\ jobs' = [jobs EXCEPT ![i].pc = "reports",
                                  ![i].booths = BoothsOf(jobs[i].venue)]
          /\ lastEvent' = NoEvent
          /\ UNCHANGED << boothStatuses, loading, selectedBooth, reportLineLength,
                          reportWaitTime, isReporting >>
     ELSE RefreshEnds(i, IF ok THEN Some(<< >>) ELSE None)
  /\ selected' = NoSelection
  /\ UNCHANGED << mounted, venueId, timers, dbReports >>
  /\ UNCHANGED << chartVars, appVars, storeVars, dialogVars >>

\* await blink.db.line_reports.list(...) for the next booth returns or
\* throws; after the last booth the statuses are sorted and set.
ReportsListed(i, ok) ==
  /\ jobs[i].pc = "reports"
  /\ LET booth == jobs[i].booths[Len(jobs[i].statuses) + 1]
         statuses == Append(jobs[i].statuses,
                            BoothStatus(booth, ListReports(dbReports, booth.id)))
     IN  IF ok /\ Len(statuses) < Len(jobs[i].booths)
         THEN /\ jobs' = [jobs EXCEPT ![i].statuses = statuses]
              /\ lastEvent' = NoEvent
              /\ UNCHANGED << boothStatuses, loading, selectedBooth, reportLineLength,
                              reportWaitTime, isReporting >>
         ELSE RefreshEnds(i, IF ok THEN Some(SortByLineLength(statuses)) ELSE None)
  /\ selected' = NoSelection
  /\ UNCHANGED << mounted, venueId, timers, dbReports >>
  /\ UNCHANGED << chartVars, appVars, storeVars, dialogVars >>

\* onValueChange={setSelectedBooth}: the items are the booths displayed.
SetSelectedBooth(boothId) ==
  /\ mounted /\ ~loading
  /\ \E k \in 1..Len(boothStatuses) : boothStatuses[k].booth.id = boothId
  /\ boothId # selectedBooth
  /\ selectedBooth' = boothId
  /\ selected' = NoSelection
  /\ lastEvent' = NoEvent
  /\ UNCHANGED << mounted, venueId, boothStatuses, loading, reportLineLength,
                  reportWaitTime, isReporting, timers, jobs, dbReports >>
  /\ UNCHANGED << chartVars, appVars, storeVars, dialogVars >>

\* onValueChange={setReportLineLength}
SetReportLineLength(value) ==
  /\ mounted /\ ~loading
  /\ value # reportLineLength
  /\ reportLineLength' = value
  /\ selected' = NoSelection
  /\ lastEvent' = NoEvent
  /\ UNCHANGED << mounted, venueId, boothStatuses, loading, selectedBooth,
                  reportWaitTime, isReporting, timers, jobs, dbReports >>
  /\ UNCHANGED << chartVars, appVars, storeVars, dialogVars >>

\* onValueChange={setReportWaitTime}
SetReportWaitTime(value) ==
  /\ mounted /\ ~loading
  /\ value # reportWaitTime
  /\ reportWaitTime' = value
  /\ selected' = NoSelection
  /\ lastEvent' = NoEvent
  /\ UNCHANGED << mounted, venueId, boothStatuses, loading, selectedBooth,
                  reportLineLength, isReporting, timers, jobs, dbReports >>
  /\ UNCHANGED << chartVars, appVars, storeVars, dialogVars >>

\* !selectedBooth || !reportLineLength, negated: both strings are non-empty.
FormComplete(booth, line) == booth # "" /\ line # ""

\* submitReport up to its await: its first line returns without a booth, a
\* line length or a user (the button that calls it is also disabled then,
\* and while reporting), otherwise the create is sent.
SubmitReport ==
  /\ mounted /\ ~loading
  /\ ~isReporting
  /\ Len(jobs) < MaxJobs
  /\ Len(dbReports) < MaxReports
  /\ IF FormComplete(selectedBooth, reportLineLength) /\ user # None
     THEN /\ isReporting' = TRUE
          /\ jobs' = Append(jobs,
               Job("submit", "create", venueId, << >>, << >>,
                   Some([booth_id |-> selectedBooth,
                         user_id |-> user[1],
                         line_length |-> ParseInt(reportLineLength),
                         wait_time_minutes |->
                           IF reportWaitTime # "" THEN Some(ParseInt(reportWaitTime))
                           ELSE None]),
                   TRUE))
          /\ lastEvent' = Event("report", TRUE, "sent")
     ELSE /\ UNCHANGED << isReporting, jobs >>
          /\ lastEvent' = Event("report", TRUE, "ignored")
  /\ selected' = NoSelection
  /\ UNCHANGED << mounted, venueId, boothStatuses, loading, selectedBooth,
                  reportLineLength, reportWaitTime, timers, dbReports >>
  /\ UNCHANGED << chartVars, appVars, storeVars, dialogVars >>

\* await blink.db.line_reports.create(...) returns or throws: the id is new
\* (Date.now() and a random suffix), reported_at the time of the call; then
\* loadBoothStatuses() is called, or the catch block logs.
ReportCreated(i, ok) ==
  /\ jobs[i].kind = "submit" /\ jobs[i].pc = "create"
  /\ IF ok
     THEN /\ dbReports' = CreateReport(dbReports,
               LineReport(Len(dbReports) + 1, jobs[i].report[1].booth_id,
                          jobs[i].report[1].user_id, jobs[i].report[1].line_length,
                          jobs[i].report[1].wait_time_minutes, Len(dbReports) + 1))
          /\ jobs' = [jobs EXCEPT ![i].pc = "booths"]
          /\ lastEvent' = Event("report", TRUE, "created")
          /\ UNCHANGED isReporting
     ELSE /\ jobs' = RemoveAt(jobs, i)
          /\ isReporting' = IF jobs[i].live THEN FALSE ELSE isReporting
          /\ lastEvent' = Event("report", FALSE, "none")
          /\ UNCHANGED dbReports
  /\ selected' = NoSelection
  /\ UNCHANGED << mounted, venueId, boothStatuses, loading, selectedBooth,
                  reportLineLength, reportWaitTime, timers >>
  /\ UNCHANGED << chartVars, appVars, storeVars, dialogVars >>

\* The App as it is after sign-in, which the tracker shares only the user
\* with.
ClientIdle ==
  /\ ChartInit
  /\ gesture = GestureInit
  /\ selected = NoSelection
  /\ lastEvent = NoEvent
  /\ user = Some(Me)
  /\ venues = {"arena"}
  /\ selectedVenue = None
  /\ currentRoom = None
  /\ dbRooms = {}
  /\ userLocations = << >>
  /\ myLocation = None
  /\ subs = << >>
  /\ tasks = << >>
  /\ inbox = {}
  /\ left = {}
  /\ dbLocations = << >>
  /\ DialogInit

\* MerchBoothTracker just mounted with venueId = venue: the effect has
\* started the first refresh and set the interval.
TrackerMounted(venue) ==
  /\ mounted = TRUE
  /\ venueId = venue
  /\ boothStatuses = << >>
  /\ loading = TRUE
  /\ selectedBooth = ""
  /\ reportLineLength = ""
  /\ reportWaitTime = ""
  /\ isReporting = FALSE
  /\ timers = PollingEffect(<< >>, venue)
  /\ jobs = << LoadBoothStatuses(venue) >>

(***************************************************************************)
(* The tracker mounted for a venue of two booths, reports being submitted. *)
(***************************************************************************)
InitTracker ==
  /\ ClientIdle
  /\ TrackerMounted("club")
  /\ dbReports = << >>

NextTracker ==
  \/ \E i \in 1..Len(jobs), ok \in BOOLEAN : BoothsListed(i, ok)
  \/ \E i \in 1..Len(jobs), ok \in BOOLEAN : ReportsListed(i, ok)
  \/ \E b \in {"b4", "b5"} : SetSelectedBooth(b)
  \/ \E v \in LineChoices : SetReportLineLength(v)
  \/ \E v \in WaitChoices : SetReportWaitTime(v)
  \/ SubmitReport
  \/ \E i \in 1..Len(jobs), ok \in BOOLEAN : ReportCreated(i, ok)
  \/ \E k \in 1..Len(timers) : Tick(k)

SpecTracker == InitTracker /\ [][NextTracker]_vars

(***************************************************************************)
(* The tracker being mounted, given other venues and torn down.            *)
(***************************************************************************)
InitPolling ==
  /\ ClientIdle
  /\ TrackerUnmounted

NextPolling ==
  \/ \E v \in TrackerVenues : Mount(v)
  \/ \E v \in TrackerVenues : ChangeVenue(v)
  \/ Unmount
  \/ \E k \in 1..Len(timers) : Tick(k)
  \/ \E i \in 1..Len(jobs), ok \in BOOLEAN : BoothsListed(i, ok)
  \/ \E i \in 1..Len(jobs), ok \in BOOLEAN : ReportsListed(i, ok)

SpecPolling == InitPolling /\ [][NextPolling]_vars


(***************************************************************************)
(* The first refresh after mount at a venue of three booths, over tables   *)
(* of reports left by other users.                                         *)
(***************************************************************************)
\* line_length and wait_time_minutes of a report
Sample(line, wait) == [line |-> line, wait |-> wait]

Repeat(n, x) == [k \in 1..n |-> x]

\* Up to two reports of any kind, or three of two kinds.
SamplesShort ==
  UNION { [1..n -> { Sample(0, None), Sample(3, None), Sample(1, Some(0)),
                     Sample(2, Some(5)), Sample(3, Some(10)) }] : n \in 0..2 }
    \cup [1..3 -> { Sample(1, None), Sample(2, Some(5)) }]
    \cup { << Sample(1, None), Sample(2, None), Sample(3, None) >> }

\* Line lengths of three reports in a row.
SampleTriples ==
  { << 0, 0, 0 >>, << 1, 0, 0 >>, << 1, 1, 1 >>, << 2, 1, 1 >>, << 3, 3, 3 >> }

\* Line lengths of the reports older than the newest six.
SampleTails == { << >>, << 3 >>, Repeat(14, 0), Repeat(15, 3) }

\* Six reports and more, none with a wait time.
SamplesLong ==
  { [k \in 1..Len(l) |-> Sample(l[k], None)] :
      l \in { r \o q \o t : r \in SampleTriples, q \in SampleTriples, t \in SampleTails } }

\* The rows of one booth, newest first, numbered from base + 1 upwards in
\* the order they were reported.
MakeReports(list, boothId, base) ==
  [k \in 1..Len(list) |->
     LineReport(base + Len(list) - k + 1, boothId, Friend, list[k].line,
                list[k].wait, base + Len(list) - k + 1)]

InitAggregate ==
  /\ ClientIdle
  /\ TrackerMounted("arena")
  /\ \E l1 \in SamplesShort \cup SamplesLong,
        l2 \in { << >>, << Sample(1, None) >>, << Sample(2, None) >> },
        l3 \in { << >>, << Sample(2, None) >>, << Sample(1, Some(0)) >> } :
       dbReports = MakeReports(l1, "b1", Len(l2) + Len(l3))
                     \o MakeReports(l2, "b2", Len(l3))
                     \o MakeReports(l3, "b3", 0)

NextAggregate ==
  \/ \E i \in 1..Len(jobs), ok \in BOOLEAN : BoothsListed(i, ok)
  \/ \E i \in 1..Len(jobs), ok \in BOOLEAN : ReportsListed(i, ok)

SpecAggregate == InitAggregate /\ [][NextAggregate]_vars

(***************************************************************************)
(* The client among rooms of two venues that the friend has created and    *)
(* marked its place in: venue selections, creations, joins and leaves.     *)
(***************************************************************************)
InitRooms ==
  /\ ChartInit
  /\ gesture = GestureInit
  /\ selected = NoSelection
  /\ lastEvent = NoEvent
  /\ user = Some(Me)
  /\ venues = {"arena", "hall"}
  /\ selectedVenue = None
  /\ currentRoom = None
  /\ dbRooms = { RoomRecord(<< "B" >>, "arena", Friend),
                 RoomRecord(<< "Z" >>, "hall", Friend) }
  /\ userLocations = << >>
  /\ myLocation = None
  /\ subs = << >>
  /\ tasks = << >>
  /\ inbox = {}
  /\ left = {}
  /\ dbLocations = << LocationData(Friend, << "Z" >>, RInt(150), RInt(150), None),
                      LocationData(Friend, << "B" >>, RInt(50), RInt(50), None) >>
  /\ TrackerUnmounted
  /\ DialogInit

NextRooms ==
  \/ \E v \in venues \cup {"none"} : HandleVenueChange(v)
  \/ \E id \in GenerateRoomId : CreateRoom(id)
  \/ \E i \in 1..Len(tasks), ok \in BOOLEAN : CreateDone(i, ok)
  \/ OpenJoinDialog
  \/ CancelJoinDialog
  \/ \E text \in EnteredCodes : SetRoomCode(text)
  \/ JoinRoom
  \/ \E i \in 1..Len(tasks), ok \in BOOLEAN : JoinDone(i, ok)
  \/ LeaveRoom
  \/ \E i \in 1..Len(tasks), ok \in BOOLEAN : LeavePublished(i, ok)
  \/ \E i \in 1..Len(tasks), ok \in BOOLEAN : LeaveDeleted(i, ok)
  \/ \E i \in 1..Len(tasks) : LoadServed(i)
  \/ \E i \in 1..Len(tasks), ok \in BOOLEAN : LoadDone(i, ok)
  \/ \E m \in inbox : Deliver(m)
  \/ \E m \in inbox : DropMessage(m)

SpecRooms == InitRooms /\ [][NextRooms]_vars

(***************************************************************************)
(* The same client joining those rooms by code and leaving them.           *)
(***************************************************************************)
NextRejoin ==
  \/ OpenJoinDialog
  \/ CancelJoinDialog
  \/ \E text \in EnteredCodes : SetRoomCode(text)
  \/ JoinRoom
  \/ \E i \in 1..Len(tasks), ok \in BOOLEAN : JoinDone(i, ok)
  \/ LeaveRoom
  \/ \E i \in 1..Len(tasks), ok \in BOOLEAN : LeavePublished(i, ok)
  \/ \E i \in 1..Len(tasks), ok \in BOOLEAN : LeaveDeleted(i, ok)
  \/ \E i \in 1..Len(tasks) : LoadServed(i)
  \/ \E i \in 1..Len(tasks), ok \in BOOLEAN : LoadDone(i, ok)
  \/ \E m \in inbox : Deliver(m)
  \/ \E m \in inbox : DropMessage(m)

SpecRejoin == InitRooms /\ [][NextRejoin]_vars

(***************************************************************************)
(* The client creating a room with a code of full length, leaving it and   *)
(* joining it again by typing the code.                                    *)
(***************************************************************************)
\* A value of generateRoomId() of the usual length: six characters.
FullCode == << "B", "C", "0", "Z", "C", "B" >>

\* The code as a user may enter it: as shown, in lower case, after a space.
FullCodeTexts ==
  { FullCode,
    << "b", "c", "0", "z", "c", "b" >>,
    << " " >> \o FullCode }

InitRoundTrip ==
  /\ ChartInit
  /\ gesture = GestureInit
  /\ selected = NoSelection
  /\ lastEvent = NoEvent
  /\ user = Some(Me)
  /\ venues = {"arena"}
  /\ selectedVenue = Some("arena")
  /\ currentRoom = None
  /\ dbRooms = {}
  /\ userLocations = << >>
  /\ myLocation = None
  /\ subs = << >>
  /\ tasks = << >>
  /\ inbox = {}
  /\ left = {}
  /\ dbLocations = << >>
  /\ TrackerUnmounted
  /\ DialogInit

NextRoundTrip ==
  \/ CreateRoom(FullCode)
  \/ \E i \in 1..Len(tasks), ok \in BOOLEAN : CreateDone(i, ok)
  \/ OpenJoinDialog
  \/ CancelJoinDialog
  \/ \E text \in FullCodeTexts : SetRoomCode(text)
  \/ JoinRoom
  \/ \E i \in 1..Len(tasks), ok \in BOOLEAN : JoinDone(i, ok)
  \/ LeaveRoom
  \/ \E i \in 1..Len(tasks), ok \in BOOLEAN : LeavePublished(i, ok)
  \/ \E i \in 1..Len(tasks), ok \in BOOLEAN : LeaveDeleted(i, ok)
  \/ \E i \in 1..Len(tasks) : LoadServed(i)
  \/ \E i \in 1..Len(tasks), ok \in BOOLEAN : LoadDone(i, ok)
  \/ \E m \in inbox : Deliver(m)
  \/ \E m \in inbox : DropMessage(m)

SpecRoundTrip == InitRoundTrip /\ [][NextRoundTrip]_vars

(***************************************************************************)
(* Claims about the chart, checked under SpecChart.                        *)
(***************************************************************************)

\* C1: a click that follows a press, pointer moves that changed the pan
\* offset, and the release does not invoke onLocationSelect.
C1_DragSuppressesClick == selected.called => ~selected.afterDrag

C3_Pair(row) == << row.user_id, row.room_id >>

\* C3: the store holds at most one user_locations row per (user, room) pair:
\* every row's id is "<userId>-<roomId>", no two rows are of the same pair,
\* different pairs of users and rooms of the store have different ids, and a
\* write leaves the rows of the other pairs in place.
C3_OneRowPerPair ==
  /\ [] ( /\ \A k \in 1..Len(dbLocations) :
               dbLocations[k].id = dbLocations[k].user_id \o << "-" >> \o dbLocations[k].room_id
          /\ \A j, k \in 1..Len(dbLocations) :
               C3_Pair(dbLocations[j]) = C3_Pair(dbLocations[k]) => j = k
          /\ \A u1, u2 \in {Me, Friend}, r1, r2 \in dbRooms :
               LocationId(u1, r1.id) = LocationId(u2, r2.id) => u1 = u2 /\ r1.id = r2.id )
  /\ [][ \A k \in 1..Len(dbLocations) :
            \E j \in 1..Len(dbLocations') :
               C3_Pair(dbLocations'[j]) = C3_Pair(dbLocations[k]) ]_vars

\* Both users have written in one room and the friend in a second one.
C3_Witness ==
  /\ Len(dbLocations) = 3
  /\ \E j, k \in 1..3 :
       /\ dbLocations[j].user_id = Me /\ dbLocations[k].user_id = Friend
       /\ dbLocations[j].room_id = dbLocations[k].room_id
  /\ Len(tasks) = 1 /\ tasks[1].kind = "update" /\ tasks[1].pc = "upsert"
  /\ \E k \in 1..3 : dbLocations[k].id = tasks[1].loc[1].id

\* The entries of userLocations of the users other than userId.
C4_Others(locs, userId) == SelectSeq(locs, LAMBDA loc : loc.user_id # userId)

\* The entries of userLocations of userId.
C4_Of(locs, userId) == SelectSeq(locs, LAMBDA loc : loc.user_id = userId)

\* C4: userLocations holds at most one entry per user_id, and every message
\* received on the current room's channel leaves the entries of the other
\* users as they are and leaves, for its user, the payload of the message
\* alone (location-update) or no entry (user-left).
C4_LastMessageWins ==
  /\ [] ( \A j, k \in 1..Len(userLocations) :
             userLocations[j].user_id = userLocations[k].user_id => j = k )
  /\ [][ \A m \in inbox :
           ( /\ inbox' = inbox \ {m}
             /\ tasks' = tasks /\ dbLocations' = dbLocations
             /\ userLocations' # userLocations )
           => /\ currentRoom # None /\ m.ch = currentRoom[1].id
              /\ C4_Others(userLocations', m.userId) = C4_Others(userLocations, m.userId)
              /\ C4_Of(userLocations', m.userId) =
                   IF m.type = "location-update" THEN << m.loc[1] >> ELSE << >>
       ]_vars

\* Messages of both users have been applied, the friend's place as received
\* last differing from the row that the store holds for the friend.
C4_Witness ==
  /\ Len(userLocations) = 2
  /\ userLocations[1].user_id = Me /\ userLocations[2].user_id = Friend
  /\ inbox = {}
  /\ \E k \in 1..Len(dbLocations) :
       /\ dbLocations[k].user_id = Friend
       /\ dbLocations[k].x_position # userLocations[2].x_position

\* C5: once leaveRoom has taken the client out of room R, and until the user
\* joins R again, the store holds no user_locations row "<userId>-R".
C5_RowDeletedOnLeave ==
  \A r \in left :
    \A k \in 1..Len(dbLocations) : dbLocations[k].id # LocationId(Me, r)

\* C6: every failure of a store or realtime operation during a user action
\* shows the user an error notification for that action.
C6_FailureShowsError == lastEvent.ok = FALSE => lastEvent.toast = "Error"

\* C7: the App holds exactly the subscription to its current room's channel
\* while in a room and none otherwise.
C7_SubscriptionMatchesRoom ==
  subs = IF currentRoom = None THEN << >> ELSE << currentRoom[1].id >>

\* In a room again after having left another one.
C7_Witness ==
  /\ currentRoom # None
  /\ left # {}
  /\ subs = << currentRoom[1].id >>
  /\ inbox # {}

\* C8: the click's logical coordinates, rendered forward by
\* translate(pan) scale(zoom), fall on the pointer position of the click:
\* the inversion undoes the render transform.
C8_InversionUndoesRender ==
  selected.called =>
    /\ Render(selected.x, pan.x) = RInt(selected.px)
    /\ Render(selected.y, pan.y) = RInt(selected.py)

\* The numbers of a path put a point in the box of its first four pairs,
\* edges included.
C9_InBox(coords, x, y) ==
  /\ \E k \in {1, 3, 5, 7} : RLe(RInt(coords[k]), x)
  /\ \E k \in {1, 3, 5, 7} : RLe(x, RInt(coords[k]))
  /\ \E k \in {2, 4, 6, 8} : RLe(RInt(coords[k]), y)
  /\ \E k \in {2, 4, 6, 8} : RLe(y, RInt(coords[k]))

\* The sections the claim lets match: at least 8 numbers, point in the box.
C9_ClaimedHits(sections, x, y) ==
  { i \in 1..Len(sections) :
      /\ Len(Numbers(sections[i].path)) >= 8
      /\ C9_InBox(Numbers(sections[i].path), x, y) }

\* Those whose path also holds the letters M, L and Z.
C9_AmendedHits(sections, x, y) ==
  { i \in C9_ClaimedHits(sections, x, y) :
      \A c \in {"M", "L", "Z"} : \E k \in 1..Len(sections[i].path) :
        sections[i].path[k] = c }

C9_NameOfFirst(sections, hits, name) ==
  IF hits = {} THEN name = None
  ELSE \E i \in hits : (\A j \in hits : i <= j) /\ name = Some(sections[i].name)

\* C9 as stated: the name passed to onLocationSelect is that of the first
\* section, in list order, whose path yields at least 8 numbers and whose
\* box of the first four pairs contains the point, edges included; absent
\* when there is none.
C9_FirstHitByNumbers ==
  selected.called =>
    C9_NameOfFirst(VenueSections(selectedVenue[1]),
                   C9_ClaimedHits(VenueSections(selectedVenue[1]), selected.x, selected.y),
                   selected.name)

\* C9 amended: the same, among the sections whose path also contains the
\* characters M, L and Z; and on the square (0,0),(100,0),(100,100),(0,100)
\* the points (50,50) and (100,100) match and (150,150) does not.
C9_FirstHitAmended ==
  selected.called =>
    /\ C9_NameOfFirst(VenueSections(selectedVenue[1]),
                      C9_AmendedHits(VenueSections(selectedVenue[1]), selected.x, selected.y),
                      selected.name)
    /\ selectedVenue = Some("arena") =>
         /\ (selected.x = RInt(50) /\ selected.y = RInt(50)) => selected.name = Some("Floor")
         /\ (selected.x = RInt(100) /\ selected.y = RInt(100)) => selected.name = Some("Floor")
         /\ (selected.x = RInt(150) /\ selected.y = RInt(150)) => selected.name = None

\* A click on the corner (100,100) of the square, which matched.
C9_Witness ==
  /\ selected.called
  /\ selectedVenue = Some("arena")
  /\ selected.x = RInt(100) /\ selected.y = RInt(100)
  /\ selected.name = Some("Floor")

\* C10: zoom stays within [0.5, 3] whatever zoom-in, zoom-out and reset
\* steps are taken, and from every state of the mounted chart reset gives
\* zoom 1 and pan (0,0).
C10_ZoomInRange ==
  /\ RLe(ZoomMin, zoom) /\ RLe(zoom, RInt(ZoomMax))
  /\ ChartMounted =>
       ENABLED (HandleReset /\ zoom' = RInt(1) /\ pan' = [x |-> 0, y |-> 0])

\* Zoom at its upper limit, which only the clamp gives, with the chart panned.
C10_Witness == zoom = RInt(ZoomMax) /\ pan # [x |-> 0, y |-> 0]

C12_NotFoundChangesNothing ==
  [][ \A i \in 1..Len(tasks) :
        ( /\ tasks[i].kind = "join"
          /\ lastEvent'.op = "join" /\ lastEvent'.ok
          /\ \/ tasks' = RemoveAt(tasks, i)
             \/ /\ Len(tasks') = Len(tasks)
                /\ SubSeq(tasks', 1, Len(tasks) - 1) = RemoveAt(tasks, i)
          /\ \A r \in dbRooms : r.id # tasks[i].rid )
        => /\ lastEvent'.toast = "Room not found"
           /\ tasks' = RemoveAt(tasks, i)
           /\ UNCHANGED << currentRoom, userLocations, myLocation, roomCode,
                           showJoinDialog, subs, selectedVenue, user, left,
                           dbRooms, dbLocations, chartVars >>
    ]_vars

\* The lookup has found no room for the code Z, which stays in the open
\* dialog, while the store holds another room.
C12_Witness ==
  /\ lastEvent = Event("join", TRUE, "Room not found")
  /\ roomCode = << "Z" >>
  /\ showJoinDialog
  /\ dbRooms # {}
  /\ currentRoom = None

(***************************************************************************)
(* Claims about the booth statuses, checked under SpecAggregate.           *)
(***************************************************************************)
\* The rows of a booth that a refresh fetches: the newest 20.
C13_Fetched(boothId) ==
  LET of == SelectSeq(dbReports, LAMBDA r : r.booth_id = boothId)
  IN  [k \in 1..(IF Len(of) > 20 THEN 20 ELSE Len(of)) |-> of[k]]

RECURSIVE C13_Total(_)
C13_Total(numbers) ==
  IF numbers = << >> THEN 0 ELSE numbers[1] + C13_Total(Tail(numbers))

\* a is the mean total / count rounded to the nearest integer, halves up.
C13_IsRounded(a, total, count) ==
  2 * count * a - count <= 2 * total /\ 2 * total < 2 * count * a + count

\* C13: for every booth displayed, reportCount is the number of fetched
\* reports (at most 20), avgLineLength the rounded mean of line_length over
\* them, avgWaitTime the rounded mean of wait_time_minutes over those that
\* carry one (0 among them) or 0 when none does, lastReported the timestamp
\* of the newest report; with no report the status is 0, 0, "", 0, stable.
C13_BoothAverages ==
  \A k \in 1..Len(boothStatuses) :
    LET st == boothStatuses[k]
        rs == C13_Fetched(st.booth.id)
        lines == [j \in 1..Len(rs) |-> rs[j].line_length]
        carrying == SelectSeq(rs, LAMBDA r : r.wait_time_minutes # None)
        waits == [j \in 1..Len(carrying) |-> carrying[j].wait_time_minutes[1]]
    IN  /\ st.reportCount = Len(rs) /\ st.reportCount <= 20
        /\ rs = << >> =>
             st = [booth |-> st.booth, avgLineLength |-> 0, avgWaitTime |-> 0,
                   lastReported |-> << >>, reportCount |-> 0, trend |-> "stable"]
        /\ rs # << >> =>
             /\ C13_IsRounded(st.avgLineLength, C13_Total(lines), Len(lines))
             /\ IF waits = << >> THEN st.avgWaitTime = 0
                ELSE C13_IsRounded(st.avgWaitTime, C13_Total(waits), Len(waits))
             /\ st.lastReported = << rs[1].reported_at >>
             /\ \A r \in { dbReports[j] : j \in 1..Len(dbReports) } :
                  r.booth_id = st.booth.id => r.reported_at <= rs[1].reported_at
        /\ (lines = << 1, 2, 3 >> /\ waits = << >>) =>
             st.avgLineLength = 2 /\ st.avgWaitTime = 0 /\ st.trend = "stable"

\* A booth with 21 reports in the store is displayed with 20, and another
\* one with a mean of 1.5 as 2.
C13_Witness ==
  /\ Len(boothStatuses) = 3
  /\ \E k \in 1..3 :
       /\ boothStatuses[k].booth.id = "b1"
       /\ boothStatuses[k].reportCount = 20
       /\ Len(SelectSeq(dbReports, LAMBDA r : r.booth_id = "b1")) = 21
  /\ \E k \in 1..3 :
       /\ boothStatuses[k].booth.id = "b3"
       /\ boothStatuses[k].avgWaitTime = 0
       /\ boothStatuses[k].reportCount = 1
       /\ boothStatuses[k].avgLineLength = 1

\* C14: with fewer than 6 fetched reports the trend is stable; with 6 or
\* more it is up if the mean of the 3 newest exceeds the mean of the next 3
\* by more than 0.3, down if it is below it by more than 0.3, stable
\* otherwise, whatever the 7th and older reports are.
C14_BoothTrend ==
  \A k \in 1..Len(boothStatuses) :
    LET st == boothStatuses[k]
        rs == C13_Fetched(st.booth.id)
        recent == IF Len(rs) >= 6 THEN rs[1].line_length + rs[2].line_length + rs[3].line_length ELSE 0
        previous == IF Len(rs) >= 6 THEN rs[4].line_length + rs[5].line_length + rs[6].line_length ELSE 0
    IN  /\ Len(rs) < 6 => st.trend = "stable"
        /\ Len(rs) >= 6 =>
             st.trend = IF 10 * recent > 10 * previous + 9 THEN "up"
                        ELSE IF 10 * recent < 10 * previous - 9 THEN "down"
                        ELSE "stable"
        /\ (Len(rs) = 6 /\ recent = 9 /\ previous = 0) => st.trend = "up"

\* A booth of even newest six reports is stable although its older reports
\* are all longer.
C14_Witness ==
  \E k \in 1..Len(boothStatuses) :
    /\ boothStatuses[k].booth.id = "b1"
    /\ boothStatuses[k].trend = "stable"
    /\ boothStatuses[k].reportCount = 20
    /\ LET rs == C13_Fetched("b1")
       IN  rs[1].line_length = 1 /\ rs[6].line_length = 1 /\ rs[7].line_length = 3

\* The place of a booth in the list that merch_booths.list returns.
C15_FetchIndex(boothId) ==
  CHOOSE k \in 1..Len(DbBooths) : DbBooths[k].id = boothId

\* C15: the displayed list is sorted ascending by avgLineLength, and booths
\* of equal avgLineLength are in the order in which they were fetched.
C15_SortedStable ==
  \A j, k \in 1..Len(boothStatuses) :
    j < k =>
      /\ boothStatuses[j].avgLineLength <= boothStatuses[k].avgLineLength
      /\ boothStatuses[j].avgLineLength = boothStatuses[k].avgLineLength
           => C15_FetchIndex(boothStatuses[j].booth.id)
                < C15_FetchIndex(boothStatuses[k].booth.id)

\* The second booth fetched is displayed first, the first and the third tie
\* behind it.
C15_Witness ==
  /\ Len(boothStatuses) = 3
  /\ boothStatuses[1].booth.id = "b2"
  /\ boothStatuses[2].booth.id = "b1"
  /\ boothStatuses[3].booth.id = "b3"
  /\ boothStatuses[2].avgLineLength = boothStatuses[3].avgLineLength

(***************************************************************************)
(* Claims about the report form and the refresh of the tracker.            *)
(***************************************************************************)
\* The ids of the rows of line_reports.
C16_Ids(rows) == { rows[k].id : k \in 1..Len(rows) }

\* C16: a press of Submit Report with a booth and a line length chosen (the
\* line length "0" included) by a signed-in user sends one create; every
\* change of line_reports adds exactly one row with a fresh id, made of the
\* form's values, and leaves the other rows as they are; the create's
\* success starts a refresh while the form is still filled, and the form is
\* reset only at the end of that refresh; nothing is created otherwise.
C16_SubmitAppendsAndRefreshes ==
  [][ /\ (lastEvent'.op = "report" /\ lastEvent'.toast \in {"sent", "ignored"}) =>
           IF selectedBooth # "" /\ reportLineLength # "" /\ user # None
           THEN /\ Len(jobs') = Len(jobs) + 1
                /\ SubSeq(jobs', 1, Len(jobs)) = jobs
                /\ jobs'[Len(jobs')].kind = "submit" /\ jobs'[Len(jobs')].pc = "create"
                /\ jobs'[Len(jobs')].report[1].booth_id = selectedBooth
                /\ (reportLineLength = "0") => jobs'[Len(jobs')].report[1].line_length = 0
                /\ dbReports' = dbReports
           ELSE jobs' = jobs /\ dbReports' = dbReports
      /\ dbReports' # dbReports =>
           /\ Len(dbReports') = Len(dbReports) + 1
           /\ Tail(dbReports') = dbReports
           /\ dbReports'[1].id \notin C16_Ids(dbReports)
           /\ \E i \in 1..Len(jobs) :
                /\ jobs[i].kind = "submit" /\ jobs[i].pc = "create"
                /\ dbReports'[1].booth_id = jobs[i].report[1].booth_id
                /\ dbReports'[1].user_id = jobs[i].report[1].user_id
                /\ dbReports'[1].line_length = jobs[i].report[1].line_length
                /\ dbReports'[1].wait_time_minutes = jobs[i].report[1].wait_time_minutes
                /\ jobs' = [jobs EXCEPT ![i].pc = "booths"]
           /\ UNCHANGED << selectedBooth, reportLineLength, reportWaitTime, isReporting,
                           boothStatuses >>
      /\ (isReporting /\ selectedBooth # "" /\ selectedBooth' = "") =>
           \E i \in 1..Len(jobs) :
             /\ jobs[i].kind = "submit" /\ jobs[i].pc \in {"booths", "reports"}
             /\ jobs' = RemoveAt(jobs, i)
             /\ ~isReporting'
    ]_vars

\* Two reports of the same user on the same booth are both in the store,
\* the older one of "No Line" with a wait of 0, and the form has been reset
\* after a refresh that counted both.
C16_Witness ==
  /\ Len(dbReports) = 2
  /\ dbReports[1].booth_id = dbReports[2].booth_id
  /\ dbReports[1].user_id = Me /\ dbReports[2].user_id = Me
  /\ dbReports[2].line_length = 0 /\ dbReports[2].wait_time_minutes = Some(0)
  /\ dbReports[1].id # dbReports[2].id
  /\ selectedBooth = "" /\ reportLineLength = "" /\ ~isReporting
  /\ lastEvent = Event("report", TRUE, "none")
  /\ \E k \in 1..Len(boothStatuses) : boothStatuses[k].reportCount = 2

\* C17: while the tracker is mounted with a non-empty venueId exactly one
\* polling timer is active, for that venueId, and none otherwise; mounting
\* or changing to a non-empty venueId starts a refresh of it; every refresh
\* a timer starts is for the current venueId of the mounted tracker.
C17_OnePollingTimer ==
  /\ [] ( timers = IF mounted /\ venueId # "" THEN << venueId >> ELSE << >> )
  /\ [][ /\ (venueId' # venueId /\ venueId' # "") =>
              /\ mounted'
              /\ jobs' = Append(jobs, Job("refresh", "booths", venueId', << >>, << >>, None, TRUE))
         /\ lastEvent'.op = "tick" =>
              /\ mounted /\ venueId # ""
              /\ jobs' = Append(jobs, Job("refresh", "booths", venueId, << >>, << >>, None, TRUE))
       ]_vars

\* The tracker shows "club" with its one timer while a refresh of the venue
\* it showed before, started by that venue's timer or mount, is in flight.
C17_Witness ==
  /\ mounted /\ venueId = "club"
  /\ timers = << "club" >>
  /\ Len(jobs) = 2
  /\ jobs[1].venue = "hall" /\ jobs[1].live
  /\ jobs[2].venue = "club"

\* C19: boothStatuses is the empty list or holds one entry for each booth of
\* one venue; it changes only at the end of a refresh that has read the
\* booth list and the reports of every booth without a failure, to the
\* sorted entries of that refresh; a failed read leaves it as it was.
C19_ReplacedWhole ==
  /\ [] ( \/ boothStatuses = << >>
          \/ \E v \in {"arena", "club", "hall"} :
               /\ Len(boothStatuses) = Len(BoothsOf(v))
               /\ \A k \in 1..Len(BoothsOf(v)) :
                    \E n \in 1..Len(boothStatuses) : boothStatuses[n].booth = BoothsOf(v)[k] )
  /\ [][ /\ boothStatuses' # boothStatuses =>
              \E i \in 1..Len(jobs) :
                /\ jobs' = RemoveAt(jobs, i)
                /\ lastEvent'.ok
                /\ Len(boothStatuses') = Len(BoothsOf(jobs[i].venue))
                /\ \A n \in 1..Len(jobs[i].statuses) :
                     \E k \in 1..Len(boothStatuses') : boothStatuses'[k] = jobs[i].statuses[n]
                /\ \A k \in 1..Len(boothStatuses') :
                     \/ \E n \in 1..Len(jobs[i].statuses) : boothStatuses'[k] = jobs[i].statuses[n]
                     \/ /\ jobs[i].pc = "reports"
                        /\ boothStatuses'[k].booth = jobs[i].booths[Len(jobs[i].booths)]
         /\ (lastEvent'.op \in {"refresh", "report"} /\ ~lastEvent'.ok) =>
              boothStatuses' = boothStatuses
       ]_vars

\* A refresh has just failed after the read of the first booth's reports:
\* the list displayed is still the complete earlier one, older than the
\* store.
C19_Witness ==
  /\ lastEvent = Event("refresh", FALSE, "none")
  /\ Len(boothStatuses) = 2
  /\ boothStatuses[1].reportCount = 0 /\ boothStatuses[2].reportCount = 0
  /\ dbReports # << >>

(***************************************************************************)
(* Claims about the drag of the chart.                                     *)
(***************************************************************************)
\* C18: a primary press at p0 with pan offset P sets the anchor p0 - P and
\* starts a drag; the anchor stays as it is during the drag, and every move
\* of the pointer to p during it sets the pan offset to p - anchor, that is
\* P + (p - p0); the drag is over after the release and after the pointer
\* has left; a press of another button starts no drag; a move of the
\* pointer without a drag leaves the pan offset as it is.
C18_PanByDrag ==
  /\ [] ( isDragging => gesture.phase = "pressed" )
  /\ [][ /\ (gesture.phase = "idle" /\ gesture'.phase = "pressed") =>
              /\ isDragging'
              /\ dragStart' = [x |-> gesture.pos.x - pan.x, y |-> gesture.pos.y - pan.y]
              /\ pan' = pan
         /\ (gesture.phase = "idle" /\ gesture'.phase = "auxpressed") =>
              /\ ~isDragging'
              /\ UNCHANGED << pan, dragStart >>
         /\ (isDragging /\ isDragging') =>
              /\ dragStart' = dragStart
              /\ gesture'.pos # gesture.pos =>
                   pan' = [x |-> gesture'.pos.x - dragStart.x,
                           y |-> gesture'.pos.y - dragStart.y]
         /\ (gesture.phase = "pressed" /\ gesture'.phase # "pressed") =>
              /\ ~isDragging'
              /\ pan' = pan
         /\ (~isDragging /\ gesture'.pos # gesture.pos) => pan' = pan
       ]_vars

\* A second drag is under way: it began with a pan offset other than zero,
\* and the pointer has moved since.
C18_Witness ==
  /\ isDragging /\ gesture.moved
  /\ dragStart \notin Points
  /\ dragStart # [x |-> 0, y |-> 0]
  /\ pan = [x |-> gesture.pos.x - dragStart.x, y |-> gesture.pos.y - dragStart.y]
  /\ pan # [x |-> 0, y |-> 0]

(***************************************************************************)
(* Claims about the order of the writes of handleLocationUpdate.           *)
(***************************************************************************)
\* The row of user_locations a location record has been written to.
C20_Stored(rows, loc) == \E k \in 1..Len(rows) : rows[k] = loc

\* C20: a location update reaches its publish only in the step in which its
\* upsert has succeeded, with the record stored and myLocation set to its
\* coordinates; a "location-update" of this user sets off on the channel
\* only from an update that has reached its publish, with that record; a
\* failed upsert ends the update with inbox, myLocation and the store as
\* they were; a failed publish leaves the store and myLocation as they
\* were, the new row and coordinates included; without a user or a room the
\* call changes nothing.
C20_PublishAfterUpsert ==
  [][ /\ \A i \in 1..Len(tasks') :
           (tasks'[i].kind = "update" /\ tasks'[i].pc = "publish") =>
              \/ \E j \in 1..Len(tasks) : tasks[j] = tasks'[i]
              \/ /\ i <= Len(tasks)
                 /\ tasks[i] = [tasks'[i] EXCEPT !.pc = "upsert"]
                 /\ C20_Stored(dbLocations', tasks'[i].loc[1])
                 /\ myLocation' = Some([x |-> tasks'[i].loc[1].x_position,
                                        y |-> tasks'[i].loc[1].y_position])
                 /\ inbox' = inbox
      /\ \A m \in inbox' \ inbox :
           (m.type = "location-update" /\ user # None /\ m.userId = user[1]) =>
              \E i \in 1..Len(tasks) :
                /\ tasks[i].kind = "update" /\ tasks[i].pc = "publish"
                /\ m.loc = tasks[i].loc /\ m.ch = tasks[i].rid
                /\ tasks' = RemoveAt(tasks, i)
      /\ lastEvent' = Event("update", FALSE, "Error") =>
           /\ inbox' = inbox
           /\ myLocation' = myLocation
           /\ dbLocations' = dbLocations
           /\ \E i \in 1..Len(tasks) :
                /\ tasks[i].kind = "update"
                /\ tasks' = RemoveAt(tasks, i)
      /\ (selected'.called /\ (user = None \/ currentRoom = None)) =>
           UNCHANGED << appVars, storeVars >>
    ]_vars

\* The publish has just failed after its upsert: the row of this user holds
\* the new coordinates, myLocation holds them too, and no message of this
\* user is on its way.
C20_Witness ==
  /\ lastEvent = Event("update", FALSE, "Error")
  /\ myLocation # None
  /\ \E k \in 1..Len(dbLocations) :
       /\ dbLocations[k].user_id = Me
       /\ dbLocations[k].x_position = myLocation[1].x
       /\ dbLocations[k].y_position = myLocation[1].y
  /\ \A m \in inbox : m.userId # Me
  /\ \A k \in 1..Len(userLocations) : userLocations[k].user_id # Me

(***************************************************************************)
(* Claims about the room the client is in.                                 *)
(***************************************************************************)
\* C21: out of a room, userLocations is empty and myLocation is null; in
\* room R every entry of userLocations has room_id R.
C21_LocationsOfCurrentRoom ==
  /\ currentRoom = None => (userLocations = << >> /\ myLocation = None)
  /\ currentRoom # None =>
       \A k \in 1..Len(userLocations) : userLocations[k].room_id = currentRoom[1].id

\* C22: the response of loadRoomLocations never takes a newer realtime entry
\* out of userLocations: an entry of the current room that is the row the
\* store holds now is still in the list after the response is applied.
C22_LoadKeepsRealtimeEntries ==
  [][ ( /\ currentRoom # None
        /\ \E i \in 1..Len(tasks) :
             /\ tasks[i].kind = "load" /\ tasks[i].rid = currentRoom[1].id
             /\ tasks' = RemoveAt(tasks, i) )
      => \A k \in 1..Len(userLocations) :
           ( /\ userLocations[k].room_id = currentRoom[1].id
             /\ \E n \in 1..Len(dbLocations) : dbLocations[n] = userLocations[k] )
           => \E n \in 1..Len(userLocations') : userLocations'[n] = userLocations[k]
    ]_vars

\* C23: with the client in a room and the seating chart shown (a venue is
\* selected), the selected venue is the venue of the room.
C23_ChartOfRoomVenue ==
  (currentRoom # None /\ selectedVenue # None) =>
    selectedVenue[1] = currentRoom[1].venue_id

(***************************************************************************)
(* Claims about overlapping refreshes of the tracker.                      *)
(***************************************************************************)
\* The reports counted in a list of booth statuses.
RECURSIVE C24_Counted(_)
C24_Counted(statuses) ==
  IF statuses = << >> THEN 0
  ELSE Head(statuses).reportCount + C24_Counted(Tail(statuses))

\* C24: boothStatuses never goes back to an older result: with reports only
\* added to the store of one venue, no step makes the displayed statuses
\* count fewer reports than they did, so a report counted after its
\* submission stays counted.
C24_NeverOlderResult ==
  [][ C24_Counted(boothStatuses') >= C24_Counted(boothStatuses) ]_vars

(***************************************************************************)
(* Claims about the round trip of a room code.                             *)
(***************************************************************************)
\* A letter without its case.
C25_Fold(c) ==
  CASE c = "b" -> "B" [] c = "c" -> "C" [] c = "z" -> "Z" [] OTHER -> c

\* The text without the spaces around it.
C25_Core(text) ==
  LET at == { k \in 1..Len(text) : text[k] # " " }
  IN  IF at = {} THEN << >>
      ELSE SubSeq(text, CHOOSE k \in at : \A n \in at : k <= n,
                        CHOOSE k \in at : \A n \in at : n <= k)

\* The text is the code id in some letter case, with spaces around it.
C25_IsEntryOf(text, id) ==
  /\ Len(C25_Core(text)) = Len(id)
  /\ \A k \in 1..Len(id) : C25_Fold(C25_Core(text)[k]) = C25_Fold(id[k])

\* C25: a joinRoom after the user has entered the code of a stored room, in
\* any letter case and with spaces around it, looks that room's id up, and
\* a lookup of a stored room's id that returns makes that room currentRoom.
C25_CreateThenJoin ==
  [][ /\ ( /\ Len(tasks') = Len(tasks) + 1
           /\ tasks'[Len(tasks')].kind = "join" )
         => \A r \in dbRooms :
              C25_IsEntryOf(entered, r.id) => tasks'[Len(tasks')].rid = r.id
      /\ \A i \in 1..Len(tasks) :
           ( /\ tasks[i].kind = "join"
             /\ lastEvent'.op = "join" /\ lastEvent'.ok
             /\ \/ tasks' = RemoveAt(tasks, i)
                \/ /\ Len(tasks') = Len(tasks)
                   /\ SubSeq(tasks', 1, Len(tasks) - 1) = RemoveAt(tasks, i) )
           => \A r \in dbRooms : r.id = tasks[i].rid => currentRoom' = Some(r)
    ]_vars

====
